---- MODULE Spec2Model ----
(***************************************************************************)
(* A model of niche-git: the push (receive-pack) session, update-refs, the *)
(* squash-cherry-pick, backport and linear-rebase orchestrators, and the   *)
(* Protocol-V2 call loop with its retry counter.                           *)
(*                                                                         *)
(* Git objects are content-addressed, so an object's hash is modelled by   *)
(* the object's value itself: two objects have the same hash exactly when  *)
(* they have the same content.                                             *)
(***************************************************************************)
EXTENDS Integers, Sequences, FiniteSets, TLC

VARIABLES remote, others, push, orch, fetch

vars == <<remote, others, push, orch, fetch>>

(***************************************************************************)
(* Bounds of the model.                                                    *)
(***************************************************************************)
\* Longest list of ref update commands handed to update-refs.
MaxUpdates == 2
\* Number of writes by other clients of the remote during one invocation.
MaxOtherWrites == 1
\* Largest fetch-retry-count tried.
MaxRetryCount == 3

(***************************************************************************)
(* Hashes and objects.                                                     *)
(***************************************************************************)
\* plumbing.ZeroHash: "no object / the ref does not exist".
ZeroHash == [kind |-> "zero"]

\* The empty string given as oldHash / currentRefHash / conflictRef.
EmptyString == [kind |-> "empty"]

\* A blob: binary or text; a text blob is a sequence of regions, a region is
\* <<v>> (plain lines v) or <<a, o, b>> (a conflict block with both sides).
Blob(bin, lines) == [kind |-> "blob", bin |-> bin, lines |-> lines]

\* A tree entry (object.TreeEntry).
Entry(name, mode, hash) == [Name |-> name, Mode |-> mode, Hash |-> hash]

\* A nil *object.TreeEntry.
NilEntry == [Name |-> "", Mode |-> "nil", Hash |-> ZeroHash]

\* A tree (object.Tree): its entries in the order they are written.
Tree(entries) == [kind |-> "tree", entries |-> entries]

\* A nil *object.Tree.
NilTree == [kind |-> "nil", entries |-> <<>>]

\* A commit message; from lists the commits named by "Backported from".
Message(text, from) == [text |-> text, from |-> from]

\* A commit (object.Commit): tree, parents, message; author and committer
\* are copied wherever the message is, and are folded into it.
Commit(tree, parents, msg) ==
  [kind |-> "commit", tree |-> tree, parents |-> parents, msg |-> msg]

EmptyTree == Tree(<<>>)

\* Two commits that exist on the remote when an update-refs call starts.
H1 == Commit(EmptyTree, <<>>, Message("c1", <<>>))
H2 == Commit(EmptyTree, <<H1>>, Message("c2", <<>>))

RefMain == "refs/heads/main"
RefRandom == "refs/heads/random"
RefConflict == "refs/heads/cherry-pick-conflict"

RefNames == {RefMain, RefRandom, RefConflict}

\* Values a ref of the remote may hold before the invocation.
RefValues == {ZeroHash, H1, H2}

(***************************************************************************)
(* Helpers on sequences.                                                   *)
(***************************************************************************)
Range(s) == {s[i] : i \in DOMAIN s}

SeqsUpTo(S, n) == UNION {[1..k -> S] : k \in 1..n}

(***************************************************************************)
(* push.Push (src/internal/push/push.go)                                   *)
(***************************************************************************)
\* push.RefUpdate: OldHash is a pointer, modelled as a sequence of length 0
\* (nil) or 1.
RefUpdate(name, old, new) == [Name |-> name, OldHash |-> old, NewHash |-> new]

\* The session before Push is called.
PushIdle ==
  [pc |-> "idle", updates |-> <<>>, caps |-> {}, adv |-> [r \in {} |-> ZeroHash],
   cmds |-> <<>>, pre |-> [r \in {} |-> ZeroHash], served |-> FALSE,
   status |-> <<>>, err |-> "", sent |-> 0]

\* sess.AdvertisedReferences: the refs that exist, with their values.
AdvertisedReferences(refs) ==
  [r \in {n \in DOMAIN refs : refs[n] # ZeroHash} |-> refs[r]]

\* Mutation: the expected old value is ignored and the advertised one sent.
CommandOldIgnoringExpected(u, adv) ==
  IF u.Name \in DOMAIN adv THEN adv[u.Name] ELSE ZeroHash

\* The "old" field of the command sent for a RefUpdate.
CommandOld(u, adv) ==
  IF Len(u.OldHash) > 0 THEN u.OldHash[1]
  ELSE IF u.Name \in DOMAIN adv THEN adv[u.Name]
  ELSE ZeroHash

\* packp.Command built for each RefUpdate.
Commands(updates, adv) ==
  [i \in DOMAIN updates |->
     [Name |-> updates[i].Name, Old |-> CommandOld(updates[i], adv),
      New |-> updates[i].NewHash]]

\* Mutation: the request does not ask for the atomic capability.
NoCapabilities == {}

\* Capabilities added to every reference update request.
RequestCapabilities == {"atomic"}

(***************************************************************************)
(* The remote: git receive-pack.                                           *)
(***************************************************************************)
\* A command's precondition: the ref holds the command's old value (the
\* zero hash: the ref does not exist).
CommandOk(refs, c) == refs[c.Name] = c.Old

AllCommandsOk(refs, cmds) == \A i \in DOMAIN cmds : CommandOk(refs, cmds[i])

\* The refs after the commands of cmds with index in idx were applied.
ApplyCommands(refs, cmds, idx) ==
  [r \in DOMAIN refs |->
     IF \E i \in idx : cmds[i].Name = r
     THEN cmds[CHOOSE i \in idx : cmds[i].Name = r].New
     ELSE refs[r]]

\* The refs after receive-pack executed the request: with "atomic" all
\* commands or none, without it each command on its own.
ServerRefs(refs, cmds, caps) ==
  IF "atomic" \in caps
  THEN IF AllCommandsOk(refs, cmds)
       THEN ApplyCommands(refs, cmds, DOMAIN cmds)
       ELSE refs
  ELSE ApplyCommands(refs, cmds, {i \in DOMAIN cmds : CommandOk(refs, cmds[i])})

\* The per-command statuses of the report.
ServerStatus(refs, cmds, caps) ==
  [i \in DOMAIN cmds |->
     IF "atomic" \in caps
     THEN IF AllCommandsOk(refs, cmds) THEN "ok" ELSE "atomic transaction failed"
     ELSE IF CommandOk(refs, cmds[i]) THEN "ok" ELSE "failed to update ref"]

\* status.Error(): the first command status that is not ok.
StatusError(status) ==
  IF \A i \in DOMAIN status : status[i] = "ok" THEN ""
  ELSE status[CHOOSE i \in DOMAIN status :
                /\ status[i] # "ok"
                /\ \A j \in 1..(i - 1) : status[j] = "ok"]

\* The debug.PushDebugInfo Push returns, on success and on failure alike:
\* the unpack status and the command statuses of the report, when one was
\* read.  A pointer is a sequence of length 0 (nil) or 1.
PushDebugInfo(p) ==
  [UnpackStatus |-> IF p.status # <<>> THEN "ok" ELSE "",
   CommandStatuses |-> [i \in DOMAIN p.status |->
                          [Name |-> p.cmds[i].Name, Status |-> p.status[i]]]]

\* Push is entered with the given updates.
StartPush(updates) ==
  [PushIdle EXCEPT !.pc = "advertise", !.updates = updates]

\* First round trip: the reference advertisement; the request is built from
\* it.
PushAdvertise ==
  /\ push.pc = "advertise"
  /\ push' = [push EXCEPT !.pc = "receive",
                          !.adv = AdvertisedReferences(remote),
                          !.caps = RequestCapabilities,
                          !.cmds = Commands(push.updates, AdvertisedReferences(remote))]
  /\ UNCHANGED <<remote, others, orch, fetch>>

\* The advertisement fails: Push returns the error, nothing was sent.
PushAdvertiseFail ==
  /\ push.pc = "advertise"
  /\ push' = [push EXCEPT !.pc = "done", !.err = "transport error"]
  /\ UNCHANGED <<remote, others, orch, fetch>>

\* Second round trip: the server executes the request and its report is
\* read.
PushReceivePack ==
  /\ push.pc = "receive"
  /\ remote' = ServerRefs(remote, push.cmds, push.caps)
  /\ push' = [push EXCEPT !.pc = "done", !.pre = remote, !.served = TRUE,
                          !.sent = push.sent + 1,
                          !.status = ServerStatus(remote, push.cmds, push.caps),
                          !.err = StatusError(ServerStatus(remote, push.cmds, push.caps))]
  /\ UNCHANGED <<others, orch, fetch>>

\* The second round trip breaks: either the request never reaches the
\* server or the server executes it and its report is lost.
PushReceivePackFail ==
  /\ push.pc = "receive"
  /\ \E reached \in BOOLEAN :
       /\ remote' = IF reached THEN ServerRefs(remote, push.cmds, push.caps) ELSE remote
       /\ push' = [push EXCEPT !.pc = "done", !.pre = remote, !.served = reached,
                               !.sent = push.sent + 1,
                               !.err = "transport error"]
  /\ UNCHANGED <<others, orch, fetch>>

(***************************************************************************)
(* Other clients of the same remote.                                       *)
(***************************************************************************)
\* The invocation has begun and its push, if any, is not yet answered.
InFlight == orch.pc \notin {"start", "done"} /\ push.pc # "done"

\* Another client creates, moves or deletes a ref.
OtherWriter ==
  /\ InFlight
  /\ others < MaxOtherWrites
  /\ \E r \in RefNames, h \in RefValues :
       /\ remote[r] # h
       /\ remote' = [remote EXCEPT ![r] = h]
  /\ others' = others + 1
  /\ UNCHANGED <<push, orch, fetch>>

\* No fetch is in progress.
FetchIdle ==
  [pc |-> "idle", scheme |-> "", n |-> 0, retryCount |-> 0, attempts |-> 0,
   errs |-> <<>>, result |-> ""]

(***************************************************************************)
(* update-refs (src/update_refs.go)                                        *)
(***************************************************************************)
\* Mutation: the zero hash is treated like the empty string.
OldHashPointerZeroAsEmpty(s) ==
  IF s # EmptyString /\ s # ZeroHash THEN <<s>> ELSE <<>>

\* The optional expected hash: empty string -> nil, otherwise the hash.
OldHashPointer(s) == IF s # EmptyString THEN <<s>> ELSE <<>>

\* RefUpdateCommand values tried.
RefUpdateCommands ==
  [RefName : RefNames, OldHash : {EmptyString} \cup RefValues, NewHash : {H1, H2}]

\* The order in which the refs are named in the command lists tried.
RefOrder == (RefMain :> 1) @@ (RefRandom :> 2) @@ (RefConflict :> 3)

\* Command lists tried: every command names another ref.
UpdateRefsInputs ==
  {cs \in SeqsUpTo(RefUpdateCommands, MaxUpdates) :
     \A i, j \in DOMAIN cs : i < j => RefOrder[cs[i].RefName] < RefOrder[cs[j].RefName]}

\* The RefUpdates built from the commands.
UpdateRefsRefUpdates(cs) ==
  [i \in DOMAIN cs |->
     RefUpdate(cs[i].RefName, OldHashPointer(cs[i].OldHash), cs[i].NewHash)]

\* UpdateRefs up to its call of push.Push.
UpdateRefs ==
  /\ orch.op = "update-refs"
  /\ orch.pc = "start"
  /\ \E cs \in UpdateRefsInputs :
       /\ orch' = [orch EXCEPT !.pc = "pushing", !.args = cs]
       /\ push' = StartPush(UpdateRefsRefUpdates(cs))
  /\ UNCHANGED <<remote, others, fetch>>

\* UpdateRefs after push.Push returned: the error string of the output.
UpdateRefsReturn ==
  /\ orch.op = "update-refs"
  /\ orch.pc = "pushing"
  /\ push.pc = "done"
  /\ orch' = [orch EXCEPT !.pc = "done", !.error = push.err,
                          !.pushDebugInfo = << PushDebugInfo(push) >>]
  /\ UNCHANGED <<remote, others, push, fetch>>

InitPush ==
  /\ remote \in [RefNames -> RefValues]
  /\ others = 0
  /\ push = PushIdle
  /\ orch = [op |-> "update-refs", pc |-> "start", args |-> <<>>, error |-> "",
             pushDebugInfo |-> <<>>]
  /\ fetch = FetchIdle

NextPush ==
  \/ UpdateRefs
  \/ PushAdvertise
  \/ PushAdvertiseFail
  \/ PushReceivePack
  \/ PushReceivePackFail
  \/ UpdateRefsReturn
  \/ OtherWriter

SpecPush == InitPush /\ [][NextPush]_vars

(***************************************************************************)
(* Properties of the push.                                                 *)
(***************************************************************************)
\* The server executed a request of at least two commands.
MultiServed == push.served /\ Len(push.cmds) >= 2

\* C1: push atomicity. When the server executes a push of two or more
\* updates and at least one command's old value differs from the ref's
\* value, no ref changes and the report read by the caller makes Push fail
\* with "atomic transaction failed", which update-refs returns; the refs
\* change only when every precondition holds, and then every update is
\* applied.
C1_PushAtomicity ==
  MultiServed =>
    /\ ~AllCommandsOk(push.pre, push.cmds) =>
         /\ remote = push.pre
         /\ push.status # <<>> => push.err = "atomic transaction failed"
         /\ (push.status # <<>> /\ orch.op = "update-refs" /\ orch.pc = "done")
              => orch.error = "atomic transaction failed"
    /\ remote # push.pre => AllCommandsOk(push.pre, push.cmds)
    /\ AllCommandsOk(push.pre, push.cmds) =>
         \A i \in DOMAIN push.cmds : remote[push.cmds[i].Name] = push.cmds[i].New

\* A push of two updates of which one would pass on its own and one fails
\* was executed and reported.
C1_Witness ==
  /\ MultiServed
  /\ push.status # <<>>
  /\ \E i, j \in DOMAIN push.cmds :
       /\ CommandOk(push.pre, push.cmds[i])
       /\ push.cmds[i].New # push.pre[push.cmds[i].Name]
       /\ ~CommandOk(push.pre, push.cmds[j])
  /\ orch.pc = "done"

\* Update i carries an expected old hash and the ref held another value
\* when the server executed the push.
CasMismatch(i) ==
  /\ Len(push.updates[i].OldHash) > 0
  /\ push.pre[push.updates[i].Name] # push.updates[i].OldHash[1]

\* C2: CAS safety. When an update carries expected-old H and the ref holds
\* H' # H when the server executes the push, the push fails with an error
\* and every ref of the remote keeps its value.
C2_CasSafety ==
  (push.served /\ \E i \in DOMAIN push.updates : CasMismatch(i)) =>
    /\ remote = push.pre
    /\ push.err # ""
    /\ (orch.op = "update-refs" /\ orch.pc = "done") => orch.error # ""

\* A single update whose expected old hash is a commit other than the one
\* the ref holds was executed, and the ref would have moved.
C2_Witness ==
  /\ push.served
  /\ push.status # <<>>
  /\ Len(push.updates) = 1
  /\ CasMismatch(1)
  /\ push.updates[1].OldHash[1] # ZeroHash
  /\ push.pre[push.updates[1].Name] # ZeroHash
  /\ push.pre[push.updates[1].Name] # push.updates[1].NewHash
  /\ orch.pc = "done"

\* update-refs was called with command i expecting the zero hash and the
\* server executed the push.
ZeroExpected(i) ==
  /\ orch.op = "update-refs"
  /\ push.served
  /\ i \in DOMAIN orch.args
  /\ orch.args[i].OldHash = ZeroHash

\* C3: creation semantics. A command of update-refs with oldHash = zero
\* hash fails, with no ref changed, whenever the ref exists when the server
\* executes the push, also when it already points to the new hash; sent on
\* its own it succeeds exactly when the ref does not exist, and the ref
\* then exists and points to the new hash.
C3_CreationSemantics ==
  \A i \in 1..MaxUpdates + 1 :
    ZeroExpected(i) =>
      /\ push.pre[orch.args[i].RefName] # ZeroHash =>
           /\ remote = push.pre
           /\ push.err # ""
      /\ (push.pre[orch.args[i].RefName] = ZeroHash /\ Len(orch.args) = 1) =>
           /\ remote[orch.args[i].RefName] = orch.args[i].NewHash
           /\ remote[orch.args[i].RefName] # ZeroHash
           /\ push.status # <<>> => push.err = ""
      /\ (Len(orch.args) = 1 /\ push.status # <<>>) =>
           (push.err = "" <=> push.pre[orch.args[i].RefName] = ZeroHash)

\* A creation was refused although the ref already pointed to the new hash.
C3_Witness ==
  /\ ZeroExpected(1)
  /\ Len(orch.args) = 1
  /\ push.status # <<>>
  /\ push.pre[orch.args[1].RefName] = orch.args[1].NewHash
  /\ push.err = "atomic transaction failed"

\* C4: an update without expected old hash is unconditional: once the
\* server has executed a push of that single update, the ref points to the
\* new hash, whatever other clients did to the ref before.
C4_Unconditional ==
  ( /\ orch.op = "update-refs"
    /\ push.served
    /\ Len(orch.args) = 1
    /\ orch.args[1].OldHash = EmptyString )
  => remote[orch.args[1].RefName] = orch.args[1].NewHash

(***************************************************************************)
(* merge.MergeTree (src/internal/merge/tree_merger.go) and its resolvers   *)
(***************************************************************************)
\* Entry names in byte order; the second column is the name with the suffix
\* ".rej".
NameTable ==
  << <<"d", "d.rej">>, <<"f", "f.rej">>, <<"g", "g.rej">>,
     <<"n1", "n1.rej">>, <<"n2", "n2.rej">>, <<"n3", "n3.rej">>,
     <<"n4", "n4.rej">>, <<"n5", "n5.rej">>, <<"n6", "n6.rej">>,
     <<"n7", "n7.rej">>, <<"n8", "n8.rej">>, <<"n9", "n9.rej">> >>

\* name + suffix.
AddSuffix(name, suffix) ==
  IF suffix = "" THEN name
  ELSE NameTable[CHOOSE i \in DOMAIN NameTable : NameTable[i][1] = name][2]

\* The place of an entry in object.TreeEntrySorter's order: byte order of
\* the names, a directory's name being followed by "/".
SortKey(e) ==
  LET i == CHOOSE k \in DOMAIN NameTable : e.Name \in Range(NameTable[k])
  IN 4 * i + (IF e.Name = NameTable[i][1]
              THEN (IF e.Mode = "dir" THEN 3 ELSE 0)
              ELSE (IF e.Mode = "dir" THEN 2 ELSE 1))

RECURSIVE SortEntries(_)
\* sort.Sort(object.TreeEntrySorter(entries)) as an insertion sort, which is
\* what sort.Sort runs on a short slice: entries of equal key keep their
\* order.
SortEntries(es) ==
  IF Len(es) <= 1 THEN es
  ELSE LET rest == SortEntries(SubSeq(es, 1, Len(es) - 1))
           e == es[Len(es)]
           before == SelectSeq(rest, LAMBDA x : SortKey(x) <= SortKey(e))
           after == SelectSeq(rest, LAMBDA x : SortKey(x) > SortKey(e))
       IN before \o <<e>> \o after

\* A sorted list with each pair of neighbours of equal key exchanged (equal
\* keys come in pairs at most here).
SwapTies(es) ==
  [i \in DOMAIN es |->
     IF i < Len(es) /\ SortKey(es[i]) = SortKey(es[i + 1]) THEN es[i + 1]
     ELSE IF i > 1 /\ SortKey(es[i - 1]) = SortKey(es[i]) THEN es[i - 1]
     ELSE es[i]]

\* sort.Sort(object.TreeEntrySorter(entries)): sort.Sort is not stable. Up to
\* 12 entries it is an insertion sort; on a longer slice the order in which
\* it leaves entries of equal key depends on the order they came in, which
\* ties stands for.
TreeEntrySort(es, ties) ==
  IF Len(es) <= 12 \/ ties = "kept" THEN SortEntries(es) ELSE SwapTies(SortEntries(es))

\* entries[name] of the map built from a tree's entries (a later entry of
\* the same name replaces an earlier one); NilEntry when there is none.
EntryNamed(tree, name) ==
  LET idx == {i \in DOMAIN tree.entries : tree.entries[i].Name = name}
  IN IF idx = {} THEN NilEntry
     ELSE tree.entries[CHOOSE i \in idx : \A j \in idx : j <= i]

\* filemode.FileMode.IsFile.
IsFile(e) == e.Mode \in {"file", "exec"}

hasChange(entry1, entry2) ==
  IF entry1.Mode = "nil" /\ entry2.Mode # "nil" THEN TRUE
  ELSE IF entry1.Mode # "nil" /\ entry2.Mode = "nil" THEN TRUE
  ELSE IF entry1.Mode = "nil" /\ entry2.Mode = "nil" THEN FALSE
  ELSE IF entry1.Mode = entry2.Mode /\ entry1.Hash = entry2.Hash THEN FALSE
  ELSE TRUE

\* Mutation: two sides that changed are in conflict, also when they
\* changed alike.
checkConflictTypeNoSameChange(entry1, entry2, entryBase) ==
  LET entry1Changed == hasChange(entry1, entryBase)
      entry2Changed == hasChange(entry2, entryBase)
  IN IF ~entry1Changed /\ ~entry2Changed THEN "NoChange"
     ELSE IF entry1Changed /\ ~entry2Changed THEN "TakeChange1"
     ELSE IF ~entry1Changed /\ entry2Changed THEN "TakeChange2"
     ELSE "Conflict"

checkConflictType(entry1, entry2, entryBase) ==
  LET entry1Changed == hasChange(entry1, entryBase)
      entry2Changed == hasChange(entry2, entryBase)
  IN IF ~entry1Changed /\ ~entry2Changed THEN "NoChange"
     ELSE IF entry1Changed /\ ~entry2Changed THEN "TakeChange1"
     ELSE IF ~entry1Changed /\ entry2Changed THEN "TakeChange2"
     ELSE IF ~hasChange(entry1, entry2) THEN "SameChange"
     ELSE "Conflict"

\* diff3.Merge of three text blobs, region by region: a side's change is
\* taken when the other side kept the base, and when both changed a region
\* differently the region becomes a conflict block.
Diff3Lines(a, o, b) ==
  [i \in DOMAIN a |->
     IF a[i] = b[i] THEN a[i]
     ELSE IF a[i] = o[i] THEN b[i]
     ELSE IF b[i] = o[i] THEN a[i]
     ELSE a[i] \o o[i] \o b[i]]

Diff3Conflicts(a, o, b) ==
  \E i \in DOMAIN a : a[i] # b[i] /\ a[i] # o[i] /\ b[i] # o[i]

\* conflictBlobCollector and Diff3Resolver share one record: kind tells
\* them apart, blobs is the set of blobs in the storage.
NewResolver(kind, blobs, sufA, sufB) ==
  [kind |-> kind, blobs |-> blobs,
   sideARejectionSuffix |-> sufA, sideBRejectionSuffix |-> sufB,
   blobHashes |-> <<>>,
   BinaryConflictFiles |-> <<>>, NonFileConflictFiles |-> <<>>,
   ConflictOpenFiles |-> <<>>, ConflictResolvedFiles |-> <<>>,
   NewHashes |-> <<>>, calls |-> <<>>]

\* &conflictBlobCollector{}.
NewCollector(blobs) == NewResolver("collector", blobs, "", "")

\* resolvediff3.NewDiff3Resolver: the two suffixes are not stored.
NewDiff3Resolver(blobs, sideARejectionSuffix, sideBRejectionSuffix) ==
  NewResolver("diff3", blobs, "", "")

\* conflictBlobCollector.Resolve.
CollectorResolve(r, parentPath, entry1, entry2, entryBase) ==
  [entries |-> <<>>, err |-> "",
   r |-> IF IsFile(entry1) /\ IsFile(entry2) /\ IsFile(entryBase)
         THEN [r EXCEPT !.blobHashes = @ \o <<entry1.Hash, entry2.Hash, entryBase.Hash>>]
         ELSE r]

\* Diff3Resolver.Resolve.
Diff3Resolve(r, parentPath, entry1, entry2, entryBase) ==
  IF IsFile(entry1) /\ IsFile(entry2) /\ IsFile(entryBase)
  THEN IF ~({entry1.Hash, entry2.Hash, entryBase.Hash} \subseteq r.blobs)
       THEN [entries |-> <<>>, err |-> "cannot open the conflict file", r |-> r]
       ELSE IF entry1.Hash.bin \/ entry2.Hash.bin \/ entryBase.Hash.bin
       THEN [entries |-> << [entry1 EXCEPT !.Name = AddSuffix(@, r.sideARejectionSuffix)],
                            [entry2 EXCEPT !.Name = AddSuffix(@, r.sideBRejectionSuffix)] >>,
             err |-> "",
             r |-> [r EXCEPT !.BinaryConflictFiles = Append(@, Append(parentPath, entry1.Name))]]
       ELSE LET resultHash == Blob(FALSE, Diff3Lines(entry1.Hash.lines, entryBase.Hash.lines, entry2.Hash.lines))
                hasConflict == Diff3Conflicts(entry1.Hash.lines, entryBase.Hash.lines, entry2.Hash.lines)
                r1 == [r EXCEPT !.NewHashes = Append(@, resultHash),
                                !.blobs = @ \cup {resultHash}]
            IN [entries |-> << Entry(entry1.Name, entry1.Mode, resultHash) >>,
                err |-> "",
                r |-> IF hasConflict
                      THEN [r1 EXCEPT !.ConflictOpenFiles = Append(@, Append(parentPath, entry1.Name))]
                      ELSE [r1 EXCEPT !.ConflictResolvedFiles = Append(@, Append(parentPath, entry1.Name))]]
  ELSE [entries |->
          (IF entry1.Mode # "nil"
           THEN << [entry1 EXCEPT !.Name = AddSuffix(@, r.sideARejectionSuffix)] >> ELSE <<>>)
          \o (IF entry2.Mode # "nil"
              THEN << [entry2 EXCEPT !.Name = AddSuffix(@, r.sideBRejectionSuffix)] >> ELSE <<>>),
        err |-> "",
        r |-> IF entry1.Mode # "nil"
              THEN [r EXCEPT !.NonFileConflictFiles = Append(@, Append(parentPath, entry1.Name))]
              ELSE IF entry2.Mode # "nil"
              THEN [r EXCEPT !.NonFileConflictFiles = Append(@, Append(parentPath, entry2.Name))]
              ELSE r]

\* The answer res of a resolver with the call noted in the record of the
\* resolver: the arguments and the entries returned.
Called(res, parentPath, entry1, entry2, entryBase) ==
  [res EXCEPT !.r.calls = Append(@, [parentPath |-> parentPath, entry1 |-> entry1,
                                     entry2 |-> entry2, entryBase |-> entryBase,
                                     entries |-> res.entries])]

\* The conflictResolver handed to MergeTree.
Resolve(r, parentPath, entry1, entry2, entryBase) ==
  Called(IF r.kind = "collector"
         THEN CollectorResolve(r, parentPath, entry1, entry2, entryBase)
         ELSE Diff3Resolve(r, parentPath, entry1, entry2, entryBase),
         parentPath, entry1, entry2, entryBase)

\* &treeMerger{}: the lists of the merger and the resolver it calls; order
\* is the order in which the runtime iterates over the map of names, ties
\* the way sort.Sort leaves entries of equal key in a long slice.
NewTreeMerger(r) ==
  [err |-> "", newHashes |-> <<>>,
   filesPickedEntry1 |-> <<>>, filesPickedEntry2 |-> <<>>,
   filesPickedEntry12 |-> <<>>, filesConflict |-> <<>>, r |-> r,
   order |-> "forward", ties |-> "kept"]

\* The orders of iteration over the map of names that are tried.
Orders == {"forward", "backward", "rotated"}

\* The names in the order the loop of mergeInternal visits them.
VisitOrder(order, names) ==
  IF order = "forward" \/ names = <<>> THEN names
  ELSE IF order = "backward" THEN [i \in DOMAIN names |-> names[Len(names) + 1 - i]]
  ELSE Append(Tail(names), Head(names))

\* The names of the three trees, in byte order.
MergeNames(tree1, tree2, mergeBase) ==
  LET present == {e.Name : e \in Range(tree1.entries) \cup Range(tree2.entries)
                                  \cup Range(mergeBase.entries)}
      all == [i \in 1..(2 * Len(NameTable)) |-> NameTable[(i + 1) \div 2][2 - (i % 2)]]
  IN SelectSeq(all, LAMBDA n : n \in present)

RECURSIVE mergeInternal(_, _, _, _, _)

\* The conflict case of the loop for two directories: the entry of the
\* merged subtree sub.
mergedSubtree(name, acc, sub) ==
  [entries |-> Append(acc, Entry(name, "dir", sub.hash)), tm |-> sub.tm]

\* Mutation: the entries the resolver returned are left out of the tree.
resolvedEntriesDropped(here, acc, tm, res) ==
  [entries |-> acc,
   tm |-> [tm EXCEPT !.filesConflict = Append(@, here),
                     !.r = res.r,
                     !.err = IF res.err = "" THEN "" ELSE "Cannot resolve conflict"]]

\* The conflict case of the loop otherwise: the entries res the resolver
\* returned.
resolvedEntries(here, acc, tm, res) ==
  [entries |-> acc \o res.entries,
   tm |-> [tm EXCEPT !.filesConflict = Append(@, here),
                     !.r = res.r,
                     !.err = IF res.err = "" THEN "" ELSE "Cannot resolve conflict"]]

\* Mutation: a name both sides changed alike is listed as picked from side 1
\* as well.
mergeEntryListedTwice(name, here, pth, entry1, entry2, entryBase, ct, acc, tm) ==
  CASE ct = "NoChange" -> [entries |-> Append(acc, entryBase), tm |-> tm]
    [] ct = "TakeChange1" ->
         [entries |-> IF entry1.Mode # "nil" THEN Append(acc, entry1) ELSE acc,
          tm |-> [tm EXCEPT !.filesPickedEntry1 = Append(@, here)]]
    [] ct = "TakeChange2" ->
         [entries |-> IF entry2.Mode # "nil" THEN Append(acc, entry2) ELSE acc,
          tm |-> [tm EXCEPT !.filesPickedEntry2 = Append(@, here)]]
    [] ct = "SameChange" ->
         [entries |-> IF entry1.Mode # "nil" THEN Append(acc, entry1) ELSE acc,
          tm |-> [tm EXCEPT !.filesPickedEntry1 = Append(@, here),
                            !.filesPickedEntry12 = Append(@, here)]]
    [] ct = "Conflict" ->
         IF entry1.Mode = "dir" /\ entry2.Mode = "dir"
         THEN mergedSubtree(name, acc,
                            mergeInternal(here, entry1.Hash, entry2.Hash,
                                          IF entryBase.Mode = "dir" THEN entryBase.Hash ELSE NilTree,
                                          tm))
         ELSE resolvedEntries(here, acc, tm, Resolve(tm.r, pth, entry1, entry2, entryBase))

\* One turn of the loop over the names in treeMerger.mergeInternal, for the
\* conflict type ct of the three entries: acc is resultEntries, tm the
\* merger.
mergeEntry(name, here, pth, entry1, entry2, entryBase, ct, acc, tm) ==
  CASE ct = "NoChange" -> [entries |-> Append(acc, entryBase), tm |-> tm]
    [] ct = "TakeChange1" ->
         [entries |-> IF entry1.Mode # "nil" THEN Append(acc, entry1) ELSE acc,
          tm |-> [tm EXCEPT !.filesPickedEntry1 = Append(@, here)]]
    [] ct = "TakeChange2" ->
         [entries |-> IF entry2.Mode # "nil" THEN Append(acc, entry2) ELSE acc,
          tm |-> [tm EXCEPT !.filesPickedEntry2 = Append(@, here)]]
    [] ct = "SameChange" ->
         [entries |-> IF entry1.Mode # "nil" THEN Append(acc, entry1) ELSE acc,
          tm |-> [tm EXCEPT !.filesPickedEntry12 = Append(@, here)]]
    [] ct = "Conflict" ->
         IF entry1.Mode = "dir" /\ entry2.Mode = "dir"
         THEN mergedSubtree(name, acc,
                            mergeInternal(here, entry1.Hash, entry2.Hash,
                                          IF entryBase.Mode = "dir" THEN entryBase.Hash ELSE NilTree,
                                          tm))
         ELSE resolvedEntries(here, acc, tm, Resolve(tm.r, pth, entry1, entry2, entryBase))

\* The entries of the three trees under a name, and their conflict type.
mergeEntryOf(name, pth, entry1, entry2, entryBase, acc, tm) ==
  mergeEntry(name, Append(pth, name), pth, entry1, entry2, entryBase,
             checkConflictType(entry1, entry2, entryBase), acc, tm)

\* The loop over the names in treeMerger.mergeInternal: m holds
\* resultEntries and the merger.
RECURSIVE mergeEntries(_, _, _, _, _, _)
mergeEntries(names, pth, tree1, tree2, mergeBase, m) ==
  IF names = <<>> \/ m.tm.err # "" THEN m
  ELSE mergeEntries(Tail(names), pth, tree1, tree2, mergeBase,
                    mergeEntryOf(Head(names), pth, EntryNamed(tree1, Head(names)),
                                 EntryNamed(tree2, Head(names)),
                                 EntryNamed(mergeBase, Head(names)), m.entries, m.tm))

\* The end of treeMerger.mergeInternal: the entries are sorted and the tree
\* is stored.
storeTree(m) ==
  IF m.tm.err # "" THEN [hash |-> NilTree, tm |-> m.tm]
  ELSE [hash |-> Tree(TreeEntrySort(m.entries, m.tm.ties)),
        tm |-> [m.tm EXCEPT !.newHashes =
                              Append(@, Tree(TreeEntrySort(m.entries, m.tm.ties)))]]

\* treeMerger.mergeInternal.
mergeInternal(pth, tree1, tree2, mergeBase, tm) ==
  storeTree(mergeEntries(VisitOrder(tm.order, MergeNames(tree1, tree2, mergeBase)),
                         pth, tree1, tree2, mergeBase, [entries |-> <<>>, tm |-> tm]))

\* Mutation: when only tree2 differs from the merge base, tree1 is returned.
MergeKeepingTree1(tree1, tree2, mergeBase, tm) ==
  IF mergeBase.kind # "nil" /\ (tree1 = mergeBase \/ tree2 = mergeBase)
  THEN [hash |-> tree1, tm |-> tm]
  ELSE IF tree1 = tree2 THEN [hash |-> tree1, tm |-> tm]
  ELSE mergeInternal(<<>>, tree1, tree2, mergeBase, tm)

\* treeMerger.Merge.
Merge(tree1, tree2, mergeBase, tm) ==
  IF mergeBase.kind # "nil" /\ tree1 # mergeBase /\ tree2 = mergeBase
  THEN [hash |-> tree1, tm |-> tm]
  ELSE IF mergeBase.kind # "nil" /\ tree1 = mergeBase /\ tree2 # mergeBase
  THEN [hash |-> tree2, tm |-> tm]
  ELSE IF mergeBase.kind # "nil" /\ tree1 = mergeBase /\ tree2 = mergeBase
  THEN [hash |-> mergeBase, tm |-> tm]
  ELSE IF tree1 = tree2 THEN [hash |-> tree1, tm |-> tm]
  ELSE mergeInternal(<<>>, tree1, tree2, mergeBase, tm)

\* The MergeResult, the error and the resolver after treeMerger.Merge
\* returned m.
MergeResult(m) ==
  [err |-> m.tm.err,
   NewHashes |-> m.tm.newHashes,
   FilesPickedEntry1 |-> m.tm.filesPickedEntry1,
   FilesPickedEntry2 |-> m.tm.filesPickedEntry2,
   FilesPickedEntry12 |-> m.tm.filesPickedEntry12,
   FilesConflict |-> m.tm.filesConflict,
   TreeHash |-> m.hash,
   resolver |-> m.tm.r]

\* merge.MergeTree.
MergeTree(tree1, tree2, mergeBase, conflictResolver) ==
  MergeResult(Merge(tree1, tree2, mergeBase, NewTreeMerger(conflictResolver)))

\* What sort.Sort may do with entries of equal key in a long slice: a slice
\* that is in order already is left as it is; otherwise the entries may be
\* kept in the order they came in or exchanged.
TiesAfter(order) == IF order = "forward" THEN {"kept"} ELSE {"kept", "swapped"}

\* merge.MergeTree in a run in which the map of names is iterated in the
\* given order and sort.Sort leaves ties the given way.
MergeTreeIn(order, ties, tree1, tree2, mergeBase, conflictResolver) ==
  MergeResult(Merge(tree1, tree2, mergeBase,
                    [NewTreeMerger(conflictResolver) EXCEPT !.order = order,
                                                            !.ties = ties]))

(***************************************************************************)
(* The objects of the remote repository the orchestrators work on.         *)
(***************************************************************************)
B0 == Blob(FALSE, << <<0>>, <<0>> >>)
\* B0 with its first region changed.
BA == Blob(FALSE, << <<1>>, <<0>> >>)
\* B0 with its second region changed.
BB == Blob(FALSE, << <<0>>, <<1>> >>)
\* B0 with its first region changed another way.
BC == Blob(FALSE, << <<2>>, <<0>> >>)
\* A binary blob.
BBin == Blob(TRUE, <<>>)

\* The tree with the single file f.
FileTree(b) == Tree(<< Entry("f", "file", b) >>)

T0 == FileTree(B0)
TA == FileTree(BA)
TB == FileTree(BB)
TC == FileTree(BC)
TBin == FileTree(BBin)
\* f has become a directory.
TDir == Tree(<< Entry("f", "dir", Tree(<< Entry("g", "file", B0) >>)) >>)
\* A second file was added.
TG == Tree(<< Entry("f", "file", B0), Entry("g", "file", BA) >>)
\* A directory d was added, with two different contents.
TDA == Tree(<< Entry("d", "dir", FileTree(BA)), Entry("f", "file", B0) >>)
TDC == Tree(<< Entry("d", "dir", FileTree(BC)), Entry("f", "file", B0) >>)

TreePool == {T0, TA, TB, TC, TBin, TDir, TG, TDA, TDC}

\* The root commit of the remote.
C0 == Commit(T0, <<>>, Message("root", <<>>))

\* A commit on top of C0 with the given tree.
OnRoot(t) == Commit(t, <<C0>>, Message("change", <<>>))

\* The paths of a result that are left in conflict.
UnresolvedFiles(r) ==
  r.ConflictOpenFiles \o r.BinaryConflictFiles \o r.NonFileConflictFiles

(***************************************************************************)
(* squash-cherry-pick (src/squash_cherry_pick.go)                          *)
(***************************************************************************)
\* A nil *PushSquashCherryPickResult.
NilResult ==
  [isNil |-> TRUE, CommitHash |-> ZeroHash, CherryPickedFiles |-> <<>>,
   ConflictOpenFiles |-> <<>>, ConflictResolvedFiles |-> <<>>,
   BinaryConflictFiles |-> <<>>, NonFileConflictFiles |-> <<>>]

\* Mutation: binary conflicts are not counted as conflicts.
HasConflictWithoutBinary(cpResult) ==
  Len(cpResult.ConflictOpenFiles) > 0 \/ Len(cpResult.NonFileConflictFiles) > 0

\* hasConflict of pushSquashCherryPick.
HasConflict(cpResult) ==
  \/ Len(cpResult.ConflictOpenFiles) > 0
  \/ Len(cpResult.BinaryConflictFiles) > 0
  \/ Len(cpResult.NonFileConflictFiles) > 0

\* Mutation: the conflict ref is used whenever it is given.
DestRefAlwaysConflictRef(hasConflict, conflictRef, ref) ==
  IF Len(conflictRef) > 0 THEN conflictRef[1] ELSE ref

\* destRef of pushSquashCherryPick; conflictRef is a pointer (length 0 or 1).
DestRef(hasConflict, conflictRef, ref) ==
  IF hasConflict /\ Len(conflictRef) > 0 THEN conflictRef[1] ELSE ref

\* The outcome of the merge passes when the second pass is not made.
OnePass(err, first, blobs, blobFetches, wanted, sufA, sufB) ==
  [err |-> err, mergeResult |-> first,
   resolver |-> NewDiff3Resolver(blobs, sufA, sufB), blobFetches |-> blobFetches,
   wanted |-> wanted, passes |-> 1, storage |-> blobs, first |-> first]

\* The outcome of the merge passes after the second pass.
TwoPasses(first, second, blobFetches, wanted) ==
  [err |-> IF second.err = "" THEN "" ELSE "failed to merge the trees",
   mergeResult |-> second, resolver |-> second.resolver,
   blobFetches |-> blobFetches, wanted |-> wanted, passes |-> 2,
   storage |-> second.resolver.blobs, first |-> first]

\* Mutation: after the blob fetch the tree of the collector pass is kept.
SecondPassKeepingFirst(first, tree1, tree2, mergeBase, blobs, remoteBlobs, fetchAll, emptyFetchOk, sufA, sufB) ==
  LET collected == Range(first.resolver.blobHashes)
      wanted == IF fetchAll THEN collected ELSE collected \ blobs
      fetched == Len(first.resolver.blobHashes) > 0
      fetchErr == fetched /\ (~(wanted \subseteq remoteBlobs)
                               \/ (wanted = {} /\ ~emptyFetchOk))
  IN IF first.err # "" THEN
       OnePass("failed to merge the trees", first, blobs, 0, {}, sufA, sufB)
     ELSE IF Len(first.FilesConflict) = 0 THEN
       OnePass("", first, blobs, 0, {}, sufA, sufB)
     ELSE IF fetchErr THEN
       OnePass("fetch failed", first, blobs, 1, wanted, sufA, sufB)
     ELSE
       OnePass("", first, IF fetched THEN blobs \cup wanted ELSE blobs,
               IF fetched THEN 1 ELSE 0, IF fetched THEN wanted ELSE {}, sufA, sufB)

\* What follows the collector pass, whose MergeResult is first.
SecondPass(first, tree1, tree2, mergeBase, blobs, remoteBlobs, fetchAll, emptyFetchOk, sufA, sufB) ==
  LET collected == Range(first.resolver.blobHashes)
      wanted == IF fetchAll THEN collected ELSE collected \ blobs
      fetched == Len(first.resolver.blobHashes) > 0
      fetchErr == fetched /\ (~(wanted \subseteq remoteBlobs)
                               \/ (wanted = {} /\ ~emptyFetchOk))
  IN IF first.err # "" THEN
       OnePass("failed to merge the trees", first, blobs, 0, {}, sufA, sufB)
     ELSE IF Len(first.FilesConflict) = 0 THEN
       OnePass("", first, blobs, 0, {}, sufA, sufB)
     ELSE IF fetchErr THEN
       OnePass("fetch failed", first, blobs, 1, wanted, sufA, sufB)
     ELSE
       TwoPasses(first,
                 MergeTree(tree1, tree2, mergeBase,
                           NewDiff3Resolver(IF fetched THEN blobs \cup wanted ELSE blobs,
                                            sufA, sufB)),
                 IF fetched THEN 1 ELSE 0, IF fetched THEN wanted ELSE {})

\* The two merge passes shared by the orchestrators: the collector pass,
\* the blob fetch when it reported conflicts, the diff3 pass. blobs is the
\* set of blobs in the storage, remoteBlobs those the remote can serve,
\* fetchAll tells whether blobs already stored are requested again,
\* emptyFetchOk whether the remote answers a fetch that wants nothing with
\* a packfile that parses.
MergePasses(tree1, tree2, mergeBase, blobs, remoteBlobs, fetchAll, emptyFetchOk, sufA, sufB) ==
  SecondPass(MergeTree(tree1, tree2, mergeBase, NewCollector(blobs)),
             tree1, tree2, mergeBase, blobs, remoteBlobs, fetchAll, emptyFetchOk,
             sufA, sufB)

\* What the merge passes mp did, for the record of the run: the conflicts
\* and the blob hashes of the collector pass and its tree, the number of
\* blob fetches, the number of passes, the tree the passes ended with, the
\* hashes the blob fetch asked for and the blobs the storage held before.
MergePassLog(mp) ==
  [conflicts |-> mp.first.FilesConflict,
   blobHashes |-> mp.first.resolver.blobHashes,
   firstTree |-> mp.first.TreeHash,
   blobFetches |-> mp.blobFetches, passes |-> mp.passes, err |-> mp.err,
   tree |-> mp.mergeResult.TreeHash,
   wanted |-> mp.wanted, stored |-> mp.first.resolver.blobs]

\* All blobs of a tree, subtrees included.
RECURSIVE TreeBlobs(_)
TreeBlobs(t) ==
  UNION {IF e.Mode = "dir" THEN TreeBlobs(e.Hash) ELSE {e.Hash} : e \in Range(t.entries)}

\* The blobs the remote can serve.
RemoteBlobs == UNION {TreeBlobs(t) : t \in TreePool}

\* The merge of pushSquashCherryPick: theirs is from, ours is to, into an
\* empty storage fetched with blob:none.
SquashCherryPickMerge(a) ==
  MergePasses(a.from.tree, a.to.tree, a.base.tree, {}, RemoteBlobs, TRUE, TRUE, ".rej", "")

\* cpResult of pushSquashCherryPick after the merge passes mp.
CherryPickResult(mp) ==
  [isNil |-> FALSE, CommitHash |-> ZeroHash,
   CherryPickedFiles |-> mp.mergeResult.FilesPickedEntry1,
   ConflictOpenFiles |-> mp.resolver.ConflictOpenFiles,
   ConflictResolvedFiles |-> mp.resolver.ConflictResolvedFiles,
   BinaryConflictFiles |-> mp.resolver.BinaryConflictFiles,
   NonFileConflictFiles |-> mp.resolver.NonFileConflictFiles]

\* pushSquashCherryPick returns before push.Push is called.
Returned(result, error, mp) ==
  [result |-> result, error |-> error, calls |-> FALSE, packfile |-> {},
   updates |-> <<>>, blobFetches |-> mp.blobFetches,
   merged |-> mp.err = "", unresolved |-> UnresolvedFiles(mp.resolver),
   merges |-> << MergePassLog(mp) >>]

\* pushSquashCherryPick makes the commit and calls push.Push.
Pushing(a, cpResult, commit, mp) ==
  [result |-> [cpResult EXCEPT !.CommitHash = commit], error |-> "",
   calls |-> TRUE,
   packfile |-> {commit} \cup Range(mp.mergeResult.NewHashes)
                  \cup Range(mp.resolver.NewHashes),
   updates |-> << RefUpdate(DestRef(HasConflict(cpResult), a.conflictRef, a.ref),
                            a.currentRefhash, commit) >>,
   blobFetches |-> mp.blobFetches,
   merged |-> TRUE, unresolved |-> UnresolvedFiles(mp.resolver),
   merges |-> << MergePassLog(mp) >>]

\* pushSquashCherryPick after the merge passes mp, up to its call of
\* push.Push.
AfterMerge(a, mp, cpResult) ==
  IF mp.err # "" THEN Returned(NilResult, mp.err, mp)
  ELSE IF a.abortOnConflict /\ HasConflict(cpResult)
  THEN Returned(cpResult, "conflict detected", mp)
  ELSE Pushing(a, cpResult,
               Commit(mp.mergeResult.TreeHash, <<a.to>>, Message(a.commitMessage, <<>>)),
               mp)

\* The first fetch of pushSquashCherryPick fails.
FetchFailed ==
  [result |-> NilResult, error |-> "fetch failed", calls |-> FALSE,
   packfile |-> {}, updates |-> <<>>, blobFetches |-> 0,
   merged |-> FALSE, unresolved |-> <<>>, merges |-> <<>>]

\* What follows the merge passes mp in pushSquashCherryPick.
SquashCherryPickAfter(a, mp) == AfterMerge(a, mp, CherryPickResult(mp))

\* pushSquashCherryPick up to its call of push.Push: the result returned,
\* the error, and, when Push is called, its packfile and ref update.
SquashCherryPickPlan(a) ==
  IF a.fetchErr THEN FetchFailed
  ELSE SquashCherryPickAfter(a, SquashCherryPickMerge(a))

\* The commits squash-cherry-pick is tried on.
SCPCommits == {OnRoot(t) : t \in {T0, TA, TB, TC, TBin, TDir}}

\* The merge bases it is tried with.
SCPBases == {C0, OnRoot(TA)}

\* SquashCherryPickArgs tried, as pushSquashCherryPick receives them; the
\* conflict ref, when given, is another ref than the primary one.
SquashCherryPickInputs ==
  [from : SCPCommits, to : SCPCommits, base : SCPBases,
   commitMessage : {"squash"}, ref : {RefMain},
   conflictRef : {<<>>, <<RefConflict>>},
   currentRefhash : {<<>>, <<ZeroHash>>, <<C0>>},
   abortOnConflict : BOOLEAN, fetchErr : BOOLEAN]

\* The step of SquashCherryPick for the arguments a, plan being what
\* pushSquashCherryPick does up to the call of push.Push.
SquashCherryPickStep(a, plan) ==
  /\ orch' = [orch EXCEPT !.pc = IF plan.calls THEN "pushing" ELSE "done",
                          !.args = a, !.remote0 = remote,
                          !.result = plan.result,
                          !.error = plan.error,
                          !.merged = plan.merged,
                          !.unresolved = plan.unresolved,
                          !.packfile = plan.packfile,
                          !.blobFetches = plan.blobFetches,
                          !.merges = plan.merges]
  /\ push' = IF plan.calls THEN StartPush(plan.updates) ELSE push

\* SquashCherryPick up to the call of push.Push, or to its return when
\* Push is not called.
SquashCherryPick ==
  /\ orch.op = "squash-cherry-pick"
  /\ orch.pc = "start"
  /\ \E a \in SquashCherryPickInputs : SquashCherryPickStep(a, SquashCherryPickPlan(a))
  /\ UNCHANGED <<remote, others, fetch>>

\* SquashCherryPick after push.Push returned.
SquashCherryPickReturn ==
  /\ orch.op = "squash-cherry-pick"
  /\ orch.pc = "pushing"
  /\ push.pc = "done"
  /\ orch' = [orch EXCEPT !.pc = "done", !.error = push.err,
                          !.pushDebugInfo = << PushDebugInfo(push) >>]
  /\ UNCHANGED <<remote, others, push, fetch>>

InitSCP ==
  /\ remote \in {r \in [RefNames -> {ZeroHash, C0}] : r[RefRandom] = C0}
  /\ others = 0
  /\ push = PushIdle
  /\ orch = [op |-> "squash-cherry-pick", pc |-> "start", args |-> <<>>,
             remote0 |-> remote, result |-> NilResult, error |-> "",
             merged |-> FALSE, unresolved |-> <<>>,
             packfile |-> {}, blobFetches |-> 0, pushDebugInfo |-> <<>>,
             merges |-> <<>>]
  /\ fetch = FetchIdle

NextSCP ==
  \/ SquashCherryPick
  \/ PushAdvertise
  \/ PushAdvertiseFail
  \/ PushReceivePack
  \/ PushReceivePackFail
  \/ SquashCherryPickReturn
  \/ OtherWriter

SpecSCP == InitSCP /\ [][NextSCP]_vars

\* The merge of a squash-cherry-pick was carried out; orch.unresolved holds
\* the paths its resolver left in conflict-open, binary-conflict or
\* non-file-conflict.
SCPMerged ==
  /\ orch.op = "squash-cherry-pick"
  /\ orch.pc # "start"
  /\ orch.merged

\* C5: squash-cherry-pick with abort-on-conflict set, whose resolution
\* leaves a path in conflict-open, binary-conflict or non-file-conflict,
\* returns an error, never calls push (no request is sent), leaves every
\* remote ref as it was, and returns the conflict path lists to the caller.
C5_AbortOnConflict ==
  (SCPMerged /\ orch.args.abortOnConflict /\ orch.unresolved # <<>>)
    => /\ orch.pc = "done"
       /\ orch.error # ""
       /\ push = PushIdle
       /\ remote = orch.remote0
       /\ ~orch.result.isNil
       /\ UnresolvedFiles(orch.result) = orch.unresolved

\* An aborting squash-cherry-pick met a binary conflict and returned.
C5_Witness ==
  /\ SCPMerged
  /\ orch.args.abortOnConflict
  /\ orch.pc = "done"
  /\ orch.error = "conflict detected"
  /\ Len(orch.result.BinaryConflictFiles) > 0

\* The refs other than r are as they were when the push was executed.
OthersUnchanged(r) == \A q \in RefNames \ {r} : remote[q] = push.pre[q]

\* C6: a squash-cherry-pick without abort-on-conflict that returns no error
\* updated exactly one ref to the new commit: the conflict ref, the primary
\* ref being left as it was, when unresolved conflicts remain and a conflict
\* ref (another ref than the primary one) was given; the primary ref, the
\* conflict ref being left as it was, when no unresolved conflict remains.
C6_SingleTarget ==
  (SCPMerged /\ ~orch.args.abortOnConflict /\ orch.pc = "done" /\ orch.error = "")
    => LET a == orch.args
           conflict == orch.unresolved # <<>>
       IN /\ push.sent = 1
          /\ Len(push.cmds) = 1
          /\ (conflict /\ a.conflictRef # <<>>) =>
               /\ remote[a.conflictRef[1]] = orch.result.CommitHash
               /\ OthersUnchanged(a.conflictRef[1])
          /\ ~conflict =>
               /\ remote[a.ref] = orch.result.CommitHash
               /\ OthersUnchanged(a.ref)

\* Both branches of the choice happened: here a run with an open conflict
\* and a conflict ref moved the conflict ref and left the primary ref alone.
C6_Witness ==
  /\ SCPMerged
  /\ ~orch.args.abortOnConflict
  /\ orch.pc = "done"
  /\ orch.error = ""
  /\ Len(orch.result.ConflictOpenFiles) > 0
  /\ orch.args.conflictRef = <<RefConflict>>
  /\ remote[RefConflict] = orch.result.CommitHash
  /\ push.pre[RefConflict] # orch.result.CommitHash
  /\ remote[RefMain] = push.pre[RefMain]

(***************************************************************************)
(* backport (src/cmd/ls_refs.go, lines 44-280)                             *)
(***************************************************************************)
\* Bound: the longest list of commits to backport.
MaxCommits == 2

\* BackportCommandResult{}.
EmptyCommandResult ==
  [CommitHash |-> EmptyString, ConflictResolvedFiles |-> <<>>,
   ConflictUnresolvedFiles |-> <<>>]

\* Mutation: non-file conflicts are not counted.
ConflictedFilesWithoutNonFile(resolver) ==
  resolver.ConflictOpenFiles \o resolver.BinaryConflictFiles

\* conflictedFiles of cherrypickCommit.
ConflictedFiles(resolver) ==
  resolver.ConflictOpenFiles \o resolver.BinaryConflictFiles
    \o resolver.NonFileConflictFiles

\* The message of the backported commit.
BackportMessage(targetCommit) ==
  Message(targetCommit.msg.text, Append(targetCommit.msg.from, targetCommit))

\* What cherrypickCommit returns, with the blobs of the storage and the
\* new objects after it, and the paths its resolver left in conflict.
Picked(result, err, storage, newObjects, unresolved, merges) ==
  [result |-> result, err |-> err, storage |-> storage,
   newObjects |-> newObjects, unresolved |-> unresolved, merges |-> merges]

\* The end of cherrypickCommit: the conflicts are reported or the commit is
\* made.
cherrypickResult(currentCommitHash, targetCommit, mp, conflictedFiles, commit) ==
  IF Len(conflictedFiles) > 0 THEN
    Picked([CommitHash |-> EmptyString,
            ConflictResolvedFiles |-> mp.resolver.ConflictResolvedFiles,
            ConflictUnresolvedFiles |-> conflictedFiles],
           "conflict found", mp.storage, <<>>, UnresolvedFiles(mp.resolver),
           << MergePassLog(mp) >>)
  ELSE
    Picked([CommitHash |-> commit,
            ConflictResolvedFiles |-> mp.resolver.ConflictResolvedFiles,
            ConflictUnresolvedFiles |-> conflictedFiles],
           "", mp.storage,
           <<commit>> \o mp.mergeResult.NewHashes \o mp.resolver.NewHashes,
           UnresolvedFiles(mp.resolver), << MergePassLog(mp) >>)

\* cherrypickCommit after the merge passes mp.
cherrypickMerged(currentCommitHash, targetCommit, mp) ==
  IF mp.err # ""
  THEN Picked(EmptyCommandResult, mp.err, mp.storage, <<>>, <<>>, << MergePassLog(mp) >>)
  ELSE cherrypickResult(currentCommitHash, targetCommit, mp,
                        ConflictedFiles(mp.resolver),
                        Commit(mp.mergeResult.TreeHash, <<currentCommitHash>>,
                               BackportMessage(targetCommit)))

\* backport.cherrypickCommit on a storage holding the given blobs.
cherrypickCommit(storage, emptyFetchOk, currentCommitHash, commitHash) ==
  IF Len(commitHash.parents) # 1
  THEN Picked(EmptyCommandResult, "expected 1 parent", storage, <<>>, <<>>, <<>>)
  ELSE cherrypickMerged(currentCommitHash, commitHash,
                        MergePasses(commitHash.tree, currentCommitHash.tree,
                                    commitHash.parents[1].tree, storage, RemoteBlobs,
                                    FALSE, emptyFetchOk, ".rej", ""))

\* The backport struct after fetchCommits.
NewBackport(a) ==
  [currentCommitHash |-> a.baseCommitHash, storage |-> {}, newObjects |-> <<>>,
   commandResults |-> <<>>, unresolved |-> <<>>, merges |-> <<>>,
   err |-> IF a.fetchErr THEN "fetch failed" ELSE ""]

\* Mutation: the next commit is picked onto the same commit again.
BackportTurnOnSameCommit(s, c) ==
  [s EXCEPT !.commandResults = Append(@, c.result),
            !.unresolved = Append(@, c.unresolved),
            !.storage = c.storage,
            !.newObjects = @ \o c.newObjects,
            !.merges = @ \o c.merges,
            !.err = c.err]

\* One turn of the loop of backport.run, c being what cherrypickCommit
\* returned.
BackportTurn(s, c) ==
  [s EXCEPT !.commandResults = Append(@, c.result),
            !.unresolved = Append(@, c.unresolved),
            !.storage = c.storage,
            !.newObjects = @ \o c.newObjects,
            !.merges = @ \o c.merges,
            !.err = c.err,
            !.currentCommitHash = IF c.err = "" THEN c.result.CommitHash ELSE @]

\* The loop of backport.run over the commits left; it is left at the first
\* error.
RECURSIVE BackportLoop(_, _, _)
BackportLoop(s, commits, emptyFetchOk) ==
  IF commits = <<>> \/ s.err # "" THEN s
  ELSE BackportLoop(BackportTurn(s, cherrypickCommit(s.storage, emptyFetchOk,
                                                     s.currentCommitHash, Head(commits))),
                    Tail(commits), emptyFetchOk)

\* backport.run up to its call of backport.push.
BackportPlan(a) == BackportLoop(NewBackport(a), a.backportCommits, a.emptyFetchOk)

\* The commits offered for backporting: three changes of the root commit
\* and the root commit itself, which has no parent.
BackportCommitPool == {OnRoot(TA), OnRoot(TB), OnRoot(TBin), C0}

\* The commits backported onto.
BackportBases == {C0, OnRoot(TB), OnRoot(TC), OnRoot(TDir)}

\* BackportArgs tried.
BackportInputs ==
  [baseCommitHash : BackportBases,
   backportCommits : SeqsUpTo(BackportCommitPool, MaxCommits),
   ref : {RefMain}, currentRefHash : {<<>>, <<C0>>},
   fetchErr : BOOLEAN, emptyFetchOk : BOOLEAN]

\* The step of Backport for the arguments a, s being the backport struct
\* when backport.push is called or the run has failed.
BackportStep(a, s) ==
  /\ orch' = [orch EXCEPT !.pc = IF s.err = "" THEN "pushing" ELSE "done",
                          !.args = a,
                          !.commandResults = s.commandResults,
                          !.unresolved = s.unresolved,
                          !.newObjects = s.newObjects,
                          !.merges = s.merges,
                          !.error = s.err]
  /\ push' = IF s.err = ""
             THEN StartPush(<< RefUpdate(a.ref, a.currentRefHash, s.currentCommitHash) >>)
             ELSE push

\* Backport up to the call of push.Push, or to its return when the run
\* fails before.
Backport ==
  /\ orch.op = "backport"
  /\ orch.pc = "start"
  /\ \E a \in BackportInputs : BackportStep(a, BackportPlan(a))
  /\ UNCHANGED <<remote, others, fetch>>

\* Backport after push.Push returned.
BackportReturn ==
  /\ orch.op = "backport"
  /\ orch.pc = "pushing"
  /\ push.pc = "done"
  /\ orch' = [orch EXCEPT !.pc = "done",
                          !.pushDebugInfo = << PushDebugInfo(push) >>,
                          !.error = IF push.err # "" THEN "failed to push" ELSE ""]
  /\ UNCHANGED <<remote, others, push, fetch>>

InitBackport ==
  /\ remote \in {r \in [RefNames -> {ZeroHash, C0}] :
                   r[RefRandom] = C0 /\ r[RefConflict] = ZeroHash}
  /\ others = 0
  /\ push = PushIdle
  /\ orch = [op |-> "backport", pc |-> "start", args |-> <<>>,
             remote0 |-> remote, commandResults |-> <<>>, unresolved |-> <<>>,
             newObjects |-> <<>>, error |-> "", pushDebugInfo |-> <<>>,
             merges |-> <<>>]
  /\ fetch = FetchIdle

NextBackport ==
  \/ Backport
  \/ PushAdvertise
  \/ PushAdvertiseFail
  \/ PushReceivePack
  \/ PushReceivePackFail
  \/ BackportReturn
  \/ OtherWriter

SpecBackport == InitBackport /\ [][NextBackport]_vars

\* The commits whose cherry-pick left an unresolved conflict, by position.
Offending == {i \in DOMAIN orch.unresolved : orch.unresolved[i] # <<>>}

\* C7: backport picks the commits in the given order and stops at the first
\* one whose cherry-pick leaves an unresolved conflict: that commit is the
\* last one processed, the run returns an error without calling push and the
\* remote refs are as they were; the results hold one entry per processed
\* commit: for each earlier commit the new commit made from it on top of the
\* one before, for the offending commit its unresolved paths and no hash.
C7_FailFast ==
  (orch.op = "backport" /\ orch.pc # "start" /\ Offending # {})
    => LET n == Len(orch.commandResults)
           a == orch.args
       IN /\ Offending = {n}
          /\ n <= Len(a.backportCommits)
          /\ orch.pc = "done"
          /\ orch.error # ""
          /\ push = PushIdle
          /\ remote = orch.remote0
          /\ orch.commandResults[n].CommitHash = EmptyString
          /\ orch.commandResults[n].ConflictUnresolvedFiles = orch.unresolved[n]
          /\ \A i \in 1..(n - 1) :
               LET c == orch.commandResults[i].CommitHash
               IN /\ c # EmptyString
                  /\ c.msg.from[Len(c.msg.from)] = a.backportCommits[i]
                  /\ c.parents = << IF i = 1 THEN a.baseCommitHash
                                    ELSE orch.commandResults[i - 1].CommitHash >>

\* A backport of two commits picked the first and stopped at the second
\* with a conflict.
C7_Witness ==
  /\ orch.op = "backport"
  /\ orch.pc = "done"
  /\ Len(orch.args.backportCommits) = 2
  /\ Len(orch.commandResults) = 2
  /\ orch.commandResults[1].CommitHash # EmptyString
  /\ orch.commandResults[2].ConflictUnresolvedFiles # <<>>
  /\ orch.error = "conflict found"

(***************************************************************************)
(* linear-rebase (src/linear_rebase.go)                                    *)
(***************************************************************************)
\* Bound: the longest list of refs to rebase.
MaxRefs == 2

\* A stack of two commits on the root commit: K1 changes f, K2 adds g.
K1 == Commit(TA, <<C0>>, Message("k1", <<>>))
K2 == Commit(Tree(<< Entry("f", "file", BA), Entry("g", "file", BA) >>), <<K1>>,
             Message("k2", <<>>))

\* Destinations: DB changes f where K1 does not, DC changes f where K1
\* does, DG adds another g than K2.
DB == OnRoot(TB)
DC == OnRoot(TC)
DG == OnRoot(Tree(<< Entry("f", "file", B0), Entry("g", "file", BC) >>))

\* LinearRebaseArgRef.
LinearRebaseArgRef(ref, baseCommit) == [Ref |-> ref, BaseCommit |-> baseCommit]

\* lsRefs: the refs of the remote under one of the prefixes, all refs when
\* no prefix is given; no ref name used here is a prefix of another.
lsRefs(rem, refPrefixes) ==
  {n \in RefNames : rem[n] # ZeroHash /\ (refPrefixes = <<>> \/ n \in Range(refPrefixes))}

\* refBaseCommits of LinearRebase: the base commit of the last argument
\* with the ref name n.
RefBaseCommit(a, n) ==
  a.refs[CHOOSE i \in DOMAIN a.refs :
           /\ a.refs[i].Ref = n
           /\ \A j \in DOMAIN a.refs : a.refs[j].Ref = n => j <= i].BaseCommit

\* refMap of LinearRebase for the ref names ls-refs returned.
RefMap(rem, a, names) ==
  [n \in names |->
     [ref |-> n,
      baseCommit |-> IF \E i \in DOMAIN a.refs : a.refs[i].Ref = n
                     THEN RefBaseCommit(a, n) ELSE ZeroHash,
      headCommit |-> rem[n]]]

\* The checks of LinearRebase on refMap: the error it returns or lr.refs.
CheckedRefs(a, refMap) ==
  IF Cardinality(DOMAIN refMap) # Len(a.refs) THEN
    [error |-> "The number of refs returned does not match the number of refs requested",
     refs |-> <<>>]
  ELSE IF \E i \in DOMAIN a.refs : a.refs[i].Ref \notin DOMAIN refMap THEN
    [error |-> "Ref not found in the repository", refs |-> <<>>]
  ELSE [error |-> "", refs |-> [i \in DOMAIN a.refs |-> refMap[a.refs[i].Ref]]]

\* LinearRebase up to the fetch: the error it returns or lr.refs.
LinearRebaseRefs(rem, a) ==
  CheckedRefs(a, RefMap(rem, a, lsRefs(rem, [i \in DOMAIN a.refs |-> a.refs[i].Ref])))

\* A walk of findBranches goes on from a commit to the walk of its parent.
Walked(currentHash, rest) ==
  [err |-> rest.err, commits |-> <<currentHash>> \o rest.commits]

\* The walk of findBranches from a commit down to the base commit: the
\* commits from newest to oldest.
RECURSIVE WalkToBase(_, _)
WalkToBase(currentHash, baseCommit) ==
  IF Len(currentHash.parents) # 1 THEN [err |-> "multiple parents", commits |-> <<>>]
  ELSE IF currentHash.parents[1] = baseCommit THEN [err |-> "", commits |-> <<currentHash>>]
  ELSE Walked(currentHash, WalkToBase(currentHash.parents[1], baseCommit))

\* The branches hashToBranch keeps: for each head commit the last branch
\* with that head.
WalkedBranches(refs) ==
  {i \in DOMAIN refs :
     \A j \in DOMAIN refs : refs[j].headCommit = refs[i].headCommit => j <= i}

\* The branches of findBranches, given the walks of the branches walked.
Branches(refs, walks) ==
  IF \E i \in DOMAIN walks : walks[i].err # ""
  THEN [err |-> "failed to find branches", branches |-> <<>>]
  ELSE [err |-> "",
        branches |-> [i \in DOMAIN refs |->
                        [ref |-> refs[i].ref, baseCommit |-> refs[i].baseCommit,
                         commits |-> IF i \in DOMAIN walks THEN walks[i].commits
                                     ELSE <<refs[i].headCommit>>]]]

\* linearRebase.findBranches: only the branches hashToBranch keeps are
\* walked.
findBranches(refs) ==
  Branches(refs, [i \in WalkedBranches(refs) |->
                    WalkToBase(refs[i].headCommit, refs[i].baseCommit)])

\* Mutation: only open conflicts stop the rebase.
putCommitConflictsOpenOnly(result) ==
  Len(result.ConflictOpenFiles) > 0

\* The condition of putCommit under which it reports conflicts.
putCommitConflicts(result) ==
  \/ Len(result.ConflictOpenFiles) > 0
  \/ Len(result.BinaryConflictFiles) > 0
  \/ Len(result.NonFileConflictFiles) > 0

\* The branch result after putCommit appended the lists of its resolver.
WithConflicts(result, resolver) ==
  [result EXCEPT
     !.ConflictOpenFiles = @ \o resolver.ConflictOpenFiles,
     !.ConflictResolvedFiles = @ \o resolver.ConflictResolvedFiles,
     !.BinaryConflictFiles = @ \o resolver.BinaryConflictFiles,
     !.NonFileConflictFiles = @ \o resolver.NonFileConflictFiles]

\* Mutation: the blobs the resolver made are left out of the new objects.
putCommitResultWithoutBlobs(lr, mp, result, newCommit) ==
  IF putCommitConflicts(result)
  THEN [lr EXCEPT !.linearRebaseResults[Len(lr.linearRebaseResults)] = result,
                  !.unresolved = UnresolvedFiles(mp.resolver),
                  !.err = "conflicts found"]
  ELSE [lr EXCEPT !.linearRebaseResults[Len(lr.linearRebaseResults)] = result,
                  !.unresolved = UnresolvedFiles(mp.resolver),
                  !.newCommitHash = newCommit,
                  !.newCommits = Append(@, newCommit),
                  !.newObjectHashes = @ \cup {newCommit}
                     \cup Range(mp.mergeResult.NewHashes)]

\* The end of putCommit: the conflicts are reported or newCommit is stored.
putCommitResult(lr, mp, result, newCommit) ==
  IF putCommitConflicts(result)
  THEN [lr EXCEPT !.linearRebaseResults[Len(lr.linearRebaseResults)] = result,
                  !.unresolved = UnresolvedFiles(mp.resolver),
                  !.err = "conflicts found"]
  ELSE [lr EXCEPT !.linearRebaseResults[Len(lr.linearRebaseResults)] = result,
                  !.unresolved = UnresolvedFiles(mp.resolver),
                  !.newCommitHash = newCommit,
                  !.newCommits = Append(@, newCommit),
                  !.newObjectHashes = @ \cup {newCommit}
                     \cup Range(mp.mergeResult.NewHashes) \cup Range(mp.resolver.NewHashes)]

\* putCommit after the merge passes mp.
putCommitMerged(lr, destCommitHash, targetCommitHash, mp) ==
  IF mp.err # ""
  THEN [lr EXCEPT !.storage = mp.storage, !.puts = @ + 1,
                  !.blobFetches = @ + mp.blobFetches,
                  !.merges = Append(@, MergePassLog(mp)), !.err = mp.err]
  ELSE putCommitResult([lr EXCEPT !.storage = mp.storage, !.puts = @ + 1,
                                  !.blobFetches = @ + mp.blobFetches,
                                  !.merges = Append(@, MergePassLog(mp))],
                       mp,
                       WithConflicts(lr.linearRebaseResults[Len(lr.linearRebaseResults)],
                                     mp.resolver),
                       Commit(mp.mergeResult.TreeHash, <<destCommitHash>>,
                              targetCommitHash.msg))

\* linearRebase.putCommit on the state lr of the rebase, for the last of
\* lr.linearRebaseResults; the new commit is left in newCommitHash.
putCommit(lr, destCommitHash, targetCommitHash) ==
  putCommitMerged(lr, destCommitHash, targetCommitHash,
                  MergePasses(targetCommitHash.tree, destCommitHash.tree,
                              targetCommitHash.parents[1].tree, lr.storage, RemoteBlobs,
                              TRUE, TRUE, ".rej", ""))

\* Mutation: the branch result keeps the first commit made for the branch.
rebaseTurnKeepingFirst(lr) ==
  IF lr.err # "" THEN lr
  ELSE IF lr.linearRebaseResults[Len(lr.linearRebaseResults)].CommitHash # EmptyString
  THEN lr
  ELSE [lr EXCEPT !.linearRebaseResults[Len(lr.linearRebaseResults)].CommitHash =
                    lr.newCommitHash]

\* One turn of the loop of rebaseBranch, lr being the state putCommit left:
\* the new commit becomes the head of the branch result.
rebaseTurn(lr) ==
  IF lr.err # "" THEN lr
  ELSE [lr EXCEPT !.linearRebaseResults[Len(lr.linearRebaseResults)].CommitHash =
                    lr.newCommitHash]

\* The loop of rebaseBranch over the commits left, the oldest being last in
\* commits; destCommit is kept in newCommitHash.
RECURSIVE rebaseCommits(_, _)
rebaseCommits(lr, commits) ==
  IF commits = <<>> \/ lr.err # "" THEN lr
  ELSE rebaseCommits(rebaseTurn(putCommit(lr, lr.newCommitHash, commits[Len(commits)])),
                     SubSeq(commits, 1, Len(commits) - 1))

\* Mutation: every branch is replayed on the destination commit of the run.
rebaseBranchOnDestination(lr, destCommit, branch) ==
  rebaseCommits([lr EXCEPT !.newCommitHash = lr.destinationCommit,
                           !.linearRebaseResults =
                              Append(@, [Ref |-> branch.ref, CommitHash |-> EmptyString,
                                         ConflictOpenFiles |-> <<>>,
                                         ConflictResolvedFiles |-> <<>>,
                                         BinaryConflictFiles |-> <<>>,
                                         NonFileConflictFiles |-> <<>>])],
                branch.commits)

\* linearRebase.rebaseBranch; the new destination is left in newCommitHash.
rebaseBranch(lr, destCommit, branch) ==
  rebaseCommits([lr EXCEPT !.newCommitHash = destCommit,
                           !.linearRebaseResults =
                              Append(@, [Ref |-> branch.ref, CommitHash |-> EmptyString,
                                         ConflictOpenFiles |-> <<>>,
                                         ConflictResolvedFiles |-> <<>>,
                                         BinaryConflictFiles |-> <<>>,
                                         NonFileConflictFiles |-> <<>>])],
                branch.commits)

\* The loop of linearRebase.run over the branches left;
\* nextDestinationCommit is kept in newCommitHash.
RECURSIVE rebaseBranches(_, _)
rebaseBranches(lr, branches) ==
  IF branches = <<>> \/ lr.err # "" THEN lr
  ELSE rebaseBranches(rebaseBranch(lr, lr.newCommitHash, Head(branches)), Tail(branches))

\* Mutation: the updates carry no expected old hash.
PushOldHashNil(refs, i) == <<>>

\* oldHash of linearRebase.push for the i-th result.
PushOldHash(refs, i) == << refs[i].headCommit >>

\* The refUpdates of linearRebase.push.
LinearRebaseRefUpdates(refs, linearRebaseResults) ==
  [i \in DOMAIN linearRebaseResults |->
     RefUpdate(linearRebaseResults[i].Ref, PushOldHash(refs, i),
               linearRebaseResults[i].CommitHash)]

\* The linearRebase struct after the fetch.
NewLinearRebase(a, refs) ==
  [destinationCommit |-> a.destinationCommit, refs |-> refs, storage |-> {},
   linearRebaseResults |-> <<>>, newObjectHashes |-> {}, err |-> "",
   newCommitHash |-> a.destinationCommit, newCommits |-> <<>>,
   unresolved |-> <<>>, puts |-> 0, blobFetches |-> 0, merges |-> <<>>]

\* linearRebase.run after findBranches returned found.
runBranches(lr, found) ==
  IF found.err # "" THEN [lr EXCEPT !.err = found.err]
  ELSE rebaseBranches(lr, found.branches)

\* linearRebase.run up to its call of push.Push.
LinearRebasePlan(a, refs) == runBranches(NewLinearRebase(a, refs), findBranches(refs))

\* LinearRebaseArgs tried.
LinearRebaseInputs ==
  [destinationCommit : {C0, DB, DC, DG},
   refs : SeqsUpTo({LinearRebaseArgRef(r, b) : r \in {RefMain, RefRandom}, b \in {C0, K1}},
                   MaxRefs)]

\* The step of LinearRebase for the arguments a, listed being the outcome of
\* the checks on the answer of ls-refs.
LinearRebaseListed(a, listed) ==
  orch' = [orch EXCEPT !.pc = IF listed.error = "" THEN "listed" ELSE "done",
                       !.args = a, !.refs = listed.refs,
                       !.error = listed.error]

\* LinearRebase up to the fetch: the ls-refs call and the checks of its
\* answer.
LinearRebaseLsRefs ==
  /\ orch.op = "linear-rebase"
  /\ orch.pc = "start"
  /\ \E a \in LinearRebaseInputs : LinearRebaseListed(a, LinearRebaseRefs(remote, a))
  /\ UNCHANGED <<remote, others, push, fetch>>

\* The ls-refs call fails.
LinearRebaseLsRefsFail ==
  /\ orch.op = "linear-rebase"
  /\ orch.pc = "start"
  /\ \E a \in LinearRebaseInputs :
       orch' = [orch EXCEPT !.pc = "done", !.args = a, !.error = "ls-refs failed"]
  /\ UNCHANGED <<remote, others, push, fetch>>

\* The fetch fails.
LinearRebaseFetchFail ==
  /\ orch.op = "linear-rebase"
  /\ orch.pc = "listed"
  /\ orch' = [orch EXCEPT !.pc = "done", !.error = "failed to fetch packfile"]
  /\ UNCHANGED <<remote, others, push, fetch>>

\* The step of LinearRebase from the fetch on, lr being the linearRebase
\* struct when linearRebase.push calls push.Push or the run has failed.
LinearRebaseRan(lr) ==
  /\ orch' = [orch EXCEPT !.pc = IF lr.err = "" THEN "pushing" ELSE "done",
                          !.linearRebaseResults = lr.linearRebaseResults,
                          !.unresolved = lr.unresolved,
                          !.puts = lr.puts,
                          !.merges = lr.merges,
                          !.newCommits = lr.newCommits,
                          !.newObjectHashes = lr.newObjectHashes,
                          !.error = lr.err]
  /\ push' = IF lr.err = ""
             THEN StartPush(LinearRebaseRefUpdates(orch.refs, lr.linearRebaseResults))
             ELSE push

\* LinearRebase from the fetch to the call of push.Push, or to its return
\* when the run fails before.
LinearRebaseRun ==
  /\ orch.op = "linear-rebase"
  /\ orch.pc = "listed"
  /\ LinearRebaseRan(LinearRebasePlan(orch.args, orch.refs))
  /\ UNCHANGED <<remote, others, fetch>>

\* LinearRebase after push.Push returned: linearRebase.push keeps the debug
\* info only when Push returned no error.
LinearRebaseReturn ==
  /\ orch.op = "linear-rebase"
  /\ orch.pc = "pushing"
  /\ push.pc = "done"
  /\ orch' = [orch EXCEPT !.pc = "done",
                          !.pushDebugInfo = IF push.err # "" THEN <<>>
                                            ELSE << PushDebugInfo(push) >>,
                          !.error = IF push.err # "" THEN "failed to push changes" ELSE ""]
  /\ UNCHANGED <<remote, others, push, fetch>>

InitRebase ==
  /\ remote \in {r \in [RefNames -> {ZeroHash, K1, K2}] : r[RefConflict] = ZeroHash}
  /\ others = 0
  /\ push = PushIdle
  /\ orch = [op |-> "linear-rebase", pc |-> "start", args |-> <<>>,
             remote0 |-> remote, refs |-> <<>>, linearRebaseResults |-> <<>>,
             unresolved |-> <<>>, puts |-> 0, newCommits |-> <<>>,
             newObjectHashes |-> {}, error |-> "", pushDebugInfo |-> <<>>,
             merges |-> <<>>]
  /\ fetch = FetchIdle

NextRebase ==
  \/ LinearRebaseLsRefs
  \/ LinearRebaseLsRefsFail
  \/ LinearRebaseFetchFail
  \/ LinearRebaseRun
  \/ PushAdvertise
  \/ PushAdvertiseFail
  \/ PushReceivePack
  \/ PushReceivePackFail
  \/ LinearRebaseReturn
  \/ OtherWriter

SpecRebase == InitRebase /\ [][NextRebase]_vars

\* C8: when the replay of a commit of a linear rebase leaves a path in
\* conflict-open, binary-conflict or non-file-conflict (orch.unresolved holds
\* the paths the resolver of the last replay left so), the rebase returns an
\* error and push is never called: no ref is updated, whatever branches
\* were replayed before.
C8_ConflictAborts ==
  (orch.op = "linear-rebase" /\ orch.unresolved # <<>>)
    => /\ orch.pc = "done"
       /\ orch.error # ""
       /\ push = PushIdle
       /\ (others = 0 => remote = orch.remote0)

\* A rebase of two branches replayed the first one and met a conflict in
\* the second.
C8_Witness ==
  /\ orch.op = "linear-rebase"
  /\ orch.pc = "done"
  /\ orch.unresolved # <<>>
  /\ Len(orch.linearRebaseResults) = 2
  /\ orch.linearRebaseResults[1].CommitHash # EmptyString
  /\ UnresolvedFiles(orch.linearRebaseResults[1]) = <<>>
  /\ UnresolvedFiles(orch.linearRebaseResults[2]) # <<>>

\* Commit c is d or was made on top of d by single-parent commits.
RECURSIVE OnTopOf(_, _)
OnTopOf(c, d) ==
  \/ c = d
  \/ Len(c.parents) = 1 /\ OnTopOf(c.parents[1], d)

\* The refs as the server held them when the push of this run ended: before
\* its request was executed, or now when no request was sent.
AtPush == IF push.sent > 0 THEN push.pre ELSE remote

\* The refs of the run that hold another value at the push than the one
\* ls-refs returned (orch.remote0: no other client writes before ls-refs).
MovedRefs ==
  {i \in DOMAIN orch.refs : AtPush[orch.refs[i].ref] # orch.remote0[orch.refs[i].ref]}

\* C9: a linear rebase calls push once, with one update per input ref, in
\* their order, whose expected old hash is the head ls-refs returned for the
\* ref and whose new hash is the branch's rebased head (the replay of the
\* old head, on top of the destination commit); and when one of these refs
\* holds another value at the push than ls-refs returned, the push leaves
\* every ref as it was and the rebase returns an error.
C9_CasPush ==
  (orch.op = "linear-rebase" /\ push.pc # "idle")
    => /\ push.sent <= 1
       /\ Len(push.updates) = Len(orch.args.refs)
       /\ \A i \in DOMAIN push.updates :
            LET u == push.updates[i]
            IN /\ u.Name = orch.args.refs[i].Ref
               /\ u.OldHash = << orch.remote0[u.Name] >>
               /\ u.NewHash = orch.linearRebaseResults[i].CommitHash
               /\ u.NewHash.msg = orch.remote0[u.Name].msg
               /\ OnTopOf(u.NewHash, orch.args.destinationCommit)
               /\ push.cmds # <<>> => push.cmds[i].Old = orch.remote0[u.Name]
       /\ (push.pc = "done" /\ MovedRefs # {}) =>
            /\ remote = AtPush
            /\ push.err # ""
            /\ orch.pc = "done" => orch.error # ""

\* The push of a rebase of two refs was executed after another client had
\* moved one of them; the update of the other ref would have passed alone.
C9_Witness ==
  /\ orch.op = "linear-rebase"
  /\ orch.pc = "done"
  /\ Len(orch.refs) = 2
  /\ push.served
  /\ push.status # <<>>
  /\ Cardinality(MovedRefs) = 1
  /\ \E j \in DOMAIN push.cmds :
       /\ j \notin MovedRefs
       /\ CommandOk(push.pre, push.cmds[j])
       /\ push.cmds[j].New # push.pre[push.cmds[j].Name]
  /\ remote = push.pre
  /\ orch.error # ""

(***************************************************************************)
(* The retry loop of fetch and ls-refs calls                               *)
(* (src/internal/fetch/common.go, callProtocolV2)                          *)
(***************************************************************************)
\* gitprotocontext.GitFetchRetryCount for the value put in the context.
GitFetchRetryCount(value) == IF value >= 0 THEN value ELSE 0

\* The ways an attempt fails: the request fails, it times out, or the
\* answer does not parse.
AttemptErrors == {"request", "timeout", "parse"}

\* The schemes of the repository URL tried.
Schemes == {"http", "file", "ssh"}

\* callProtocolV2 is entered.
CallProtocolV2 ==
  /\ fetch.pc = "idle"
  /\ \E value \in (-1)..MaxRetryCount, scheme \in Schemes :
       fetch' = [FetchIdle EXCEPT !.pc = "loop", !.scheme = scheme, !.n = value,
                                  !.retryCount = GitFetchRetryCount(value)]
  /\ UNCHANGED <<remote, others, push, orch>>

\* One turn of the loop whose attempt succeeds: the call returns nil.
AttemptSucceeds ==
  /\ fetch.pc = "loop"
  /\ fetch.scheme \in {"http", "file"}
  /\ fetch' = [fetch EXCEPT !.pc = "done", !.attempts = @ + 1, !.result = "ok"]
  /\ UNCHANGED <<remote, others, push, orch>>

\* One turn of the loop whose attempt fails: the error is kept, the count
\* is decremented, and the call returns the errors when it is not positive.
AttemptFails ==
  /\ fetch.pc = "loop"
  /\ fetch.scheme \in {"http", "file"}
  /\ \E e \in AttemptErrors :
       fetch' = [fetch EXCEPT !.attempts = @ + 1,
                              !.errs = Append(@, e),
                              !.retryCount = @ - 1,
                              !.pc = IF fetch.retryCount - 1 <= 0 THEN "done" ELSE "loop",
                              !.result = IF fetch.retryCount - 1 <= 0 THEN "failed" ELSE ""]
  /\ UNCHANGED <<remote, others, push, orch>>

\* The URL has another scheme: the call returns at once.
UnsupportedProtocol ==
  /\ fetch.pc = "loop"
  /\ fetch.scheme \notin {"http", "file"}
  /\ fetch' = [fetch EXCEPT !.pc = "done", !.result = "unsupported protocol"]
  /\ UNCHANGED <<remote, others, push, orch>>

InitFetch ==
  /\ remote = [r \in RefNames |-> ZeroHash]
  /\ others = 0
  /\ push = PushIdle
  /\ orch = [op |-> "fetch", pc |-> "start", args |-> <<>>, error |-> ""]
  /\ fetch = FetchIdle

NextFetch ==
  \/ CallProtocolV2
  \/ AttemptSucceeds
  \/ AttemptFails
  \/ UnsupportedProtocol

SpecFetch == InitFetch /\ [][NextFetch]_vars

\* C10: with fetch-retry-count N >= 0, a call all of whose attempts fail
\* returns failure after exactly N + 1 attempts, and a call with an attempt
\* that succeeds returns with that attempt, the earlier ones having failed.
C10_Attempts ==
  /\ (fetch.pc = "done" /\ fetch.result = "failed" /\ fetch.n >= 0)
       => fetch.attempts = fetch.n + 1
  /\ (fetch.pc = "done" /\ fetch.result = "ok")
       => fetch.attempts = Len(fetch.errs) + 1

(***************************************************************************)
(* The three orchestrators that publish commits together                   *)
(* (squash-cherry-pick, backport, linear-rebase)                           *)
(***************************************************************************)
InitOrch == InitSCP \/ InitBackport \/ InitRebase

NextOrch == NextSCP \/ NextBackport \/ NextRebase

SpecOrch == InitOrch /\ [][NextOrch]_vars

\* An object is a commit.
IsCommit(o) == o.kind = "commit"

\* The commits the run has created, in the order of their creation.
CreatedCommits ==
  IF orch.op = "squash-cherry-pick" THEN
    IF orch.result.CommitHash = ZeroHash THEN <<>> ELSE << orch.result.CommitHash >>
  ELSE IF orch.op = "backport" THEN
    [i \in {j \in DOMAIN orch.commandResults :
              orch.commandResults[j].CommitHash # EmptyString} |->
       orch.commandResults[i].CommitHash]
  ELSE orch.newCommits

\* The objects the run has recorded as new.
NewObjects ==
  IF orch.op = "squash-cherry-pick" THEN orch.packfile
  ELSE IF orch.op = "backport" THEN Range(orch.newObjects)
  ELSE orch.newObjectHashes

\* The commit the first new commit is made on.
FirstParent ==
  IF orch.op = "squash-cherry-pick" THEN orch.args.to
  ELSE IF orch.op = "backport" THEN orch.args.baseCommitHash
  ELSE orch.args.destinationCommit

\* C11: every commit created by squash-cherry-pick, backport or
\* linear-rebase has exactly one parent: the `to` commit for
\* squash-cherry-pick, and for backport and linear-rebase the commit created
\* just before it in the same run (the base commit, respectively the
\* destination commit, for the first one); the commits among the new
\* objects of the run are these commits.
C11_SingleParent ==
  orch.pc # "start"
    => /\ DOMAIN CreatedCommits = 1..Len(CreatedCommits)
       /\ \A i \in DOMAIN CreatedCommits :
            /\ Len(CreatedCommits[i].parents) = 1
            /\ CreatedCommits[i].parents[1] =
                 IF i = 1 THEN FirstParent ELSE CreatedCommits[i - 1]
       /\ (orch.op = "squash-cherry-pick" => Len(CreatedCommits) <= 1)
       /\ {o \in NewObjects : IsCommit(o)} = Range(CreatedCommits)

\* A linear rebase of two branches has made three commits and pushed them.
C11_Witness ==
  /\ orch.op = "linear-rebase"
  /\ orch.pc = "done"
  /\ orch.error = ""
  /\ Len(orch.linearRebaseResults) = 2
  /\ Len(orch.newCommits) = 3
  /\ orch.newCommits[1].parents = << orch.args.destinationCommit >>
  /\ orch.newCommits[3].parents = << orch.newCommits[2] >>

\* The objects of a tree: the tree, its subtrees and their blobs.
RECURSIVE TreeObjects(_)
TreeObjects(t) ==
  {t} \cup UNION {IF e.Mode = "dir" THEN TreeObjects(e.Hash) ELSE {e.Hash} :
                    e \in Range(t.entries)}

\* The objects of a commit: the commit, its tree and its history.
RECURSIVE CommitObjects(_)
CommitObjects(c) ==
  {c} \cup TreeObjects(c.tree)
      \cup UNION {CommitObjects(c.parents[i]) : i \in DOMAIN c.parents}

\* Objects the remote holds: those its refs reach.
RemoteObjects(rem) ==
  UNION {CommitObjects(rem[n]) : n \in {m \in RefNames : rem[m] # ZeroHash}}

\* The list of objects handed to the packfile encoder has no object twice.
\* squash-cherry-pick and linear-rebase collect them in a map; backport
\* appends them to a slice.
NoDuplicates ==
  orch.op = "backport" => Len(orch.newObjects) = Cardinality(Range(orch.newObjects))

\* C12: in every orchestrator push the objects of the packfile are the
\* objects the run created (C11 covers its commits), none of them twice,
\* and none of them is an object the remote already held when the run
\* started.
C12_PackfileNewOnly ==
  (orch.pc \in {"pushing", "done"} /\ push.pc # "idle")
    => /\ NoDuplicates
       /\ NewObjects \cap RemoteObjects(orch.remote0) = {}

(***************************************************************************)
(* merge.MergeTree called on its own                                       *)
(* (src/internal/merge/tree_merger.go, tests in src/unnamed/part_014)      *)
(***************************************************************************)
\* A directory of twelve files, f holding the blob b.
WideTree(b) ==
  Tree([i \in 1..12 |->
          Entry(NameTable[i][1], "file", IF NameTable[i][1] = "f" THEN b ELSE B0)])

\* The trees MergeTree is tried on: the trees of the remote, the tree with
\* f and g changed alike and the tree with another g.
MergeTrees == TreePool \cup {K2.tree, DG.tree}

\* The merge bases it is tried on; a nil base stands for unrelated trees.
MergeBases == MergeTrees \cup {NilTree}

\* The triples of trees MergeTree is tried on: tree1, tree2 and the merge
\* base among the trees above, and among directories of twelve files that
\* differ in f.
MergeInputs ==
  {<<tree1, tree2, mergeBase>> :
     tree1 \in MergeTrees, tree2 \in MergeTrees, mergeBase \in MergeBases}
  \cup {<<WideTree(b1), WideTree(b2), WideTree(B0)>> :
          b1 \in {B0, BA, BBin}, b2 \in {B0, BA, BC}}

\* The resolvers it is tried with, on a storage that holds every blob.
MergeResolvers ==
  {NewCollector(RemoteBlobs), NewDiff3Resolver(RemoteBlobs, ".rej", "")}

\* A call of MergeTree.
CallMergeTree ==
  /\ orch.op = "merge-tree"
  /\ orch.pc = "start"
  /\ \E in \in MergeInputs, conflictResolver \in MergeResolvers, order \in Orders :
     \E ties \in TiesAfter(order) :
       orch' = [orch EXCEPT !.pc = "done", !.tree1 = in[1], !.tree2 = in[2],
                            !.mergeBase = in[3],
                            !.conflictResolver = conflictResolver,
                            !.order = order, !.ties = ties,
                            !.result = MergeTreeIn(order, ties, in[1], in[2], in[3],
                                                   conflictResolver)]
  /\ UNCHANGED <<remote, others, push, fetch>>

InitMerge ==
  /\ remote = [n \in RefNames |-> ZeroHash]
  /\ others = 0
  /\ push = PushIdle
  /\ orch = [op |-> "merge-tree", pc |-> "start", tree1 |-> NilTree,
             tree2 |-> NilTree, mergeBase |-> NilTree,
             conflictResolver |-> NewCollector({}), order |-> "forward",
             ties |-> "kept", result |-> <<>>]
  /\ fetch = FetchIdle

NextMerge == CallMergeTree

SpecMerge == InitMerge /\ [][NextMerge]_vars

\* changed(x, base): false iff both are absent or both are present with
\* equal mode and hash.
Changed(x, base) ==
  ~ \/ x.Mode = "nil" /\ base.Mode = "nil"
    \/ x.Mode # "nil" /\ base.Mode # "nil" /\ x.Mode = base.Mode /\ x.Hash = base.Hash

\* The entries of a tree under a name.
EntriesNamed(tree, name) == SelectSeq(tree.entries, LAMBDA e : e.Name = name)

\* An entry as it is kept in the result: a deletion leaves nothing.
Kept(e) == IF e.Mode = "nil" THEN <<>> ELSE <<e>>

\* The name is in none of the path lists but those given.
ListedOnlyIn(res, here, lists) ==
  \A l \in {"FilesPickedEntry1", "FilesPickedEntry2", "FilesPickedEntry12",
            "FilesConflict"} :
    (here \in Range(res[l])) <=> (l \in lists)

\* The merged tree out agrees, at the directory level pth and below, with
\* the three-way classification of the entries of a, b and base; listed
\* tells whether the merger has walked the level (it has not when
\* MergeTree returned one of its inputs at once).
RECURSIVE LevelOk(_, _, _, _, _, _, _)
LevelOk(a, b, base, out, pth, res, listed) ==
  \A name \in {e.Name : e \in Range(a.entries) \cup Range(b.entries)
                                 \cup Range(base.entries)} :
    LET ea == EntryNamed(a, name)
        eb == EntryNamed(b, name)
        eo == EntryNamed(base, name)
        here == Append(pth, name)
        got == EntriesNamed(out, name)
    IN IF ~Changed(ea, eo) /\ ~Changed(eb, eo) THEN
         got = <<eo>> /\ (listed => ListedOnlyIn(res, here, {}))
       ELSE IF Changed(ea, eo) /\ ~Changed(eb, eo) THEN
         got = Kept(ea) /\ (listed => ListedOnlyIn(res, here, {"FilesPickedEntry1"}))
       ELSE IF ~Changed(ea, eo) /\ Changed(eb, eo) THEN
         got = Kept(eb) /\ (listed => ListedOnlyIn(res, here, {"FilesPickedEntry2"}))
       ELSE IF ~Changed(ea, eb) THEN
         got = Kept(ea) /\ (listed => ListedOnlyIn(res, here, {"FilesPickedEntry12"}))
       ELSE IF ea.Mode = "dir" /\ eb.Mode = "dir" THEN
         /\ Len(got) = 1
         /\ got[1].Mode = "dir"
         /\ listed
         /\ ListedOnlyIn(res, here, {})
         /\ LevelOk(ea.Hash, eb.Hash, IF eo.Mode = "dir" THEN eo.Hash ELSE NilTree,
                    got[1].Hash, here, res, TRUE)
       ELSE listed /\ ListedOnlyIn(res, here, {"FilesConflict"})

\* MergeTree returned one of its inputs without walking the trees.
ShortCircuit ==
  \/ orch.tree1 = orch.tree2
  \/ orch.mergeBase # NilTree
       /\ (orch.tree1 = orch.mergeBase \/ orch.tree2 = orch.mergeBase)

\* C13: for every entry name present in any of the three trees at a
\* directory level, MergeTree keeps the base entry when neither side
\* changed, takes side a's entry (or its deletion) when only a changed,
\* side b's entry (or its deletion) when only b changed, keeps a's entry
\* when both changed to the same mode and hash, and treats the name as a
\* conflict when both changed to different values: two directories are
\* merged level by level, any other pair is listed in FilesConflict and left
\* to the resolver.
C13_Classification ==
  (orch.op = "merge-tree" /\ orch.pc = "done" /\ orch.result.err = "")
    => LevelOk(orch.tree1, orch.tree2, orch.mergeBase, orch.result.TreeHash,
               <<>>, orch.result, ~ShortCircuit)

\* A merge that walked the trees found f changed alike on both sides and g
\* added on side a only, and kept side a's entry for both.
C13_Witness ==
  /\ orch.op = "merge-tree"
  /\ orch.pc = "done"
  /\ ~ShortCircuit
  /\ orch.result.FilesPickedEntry12 = << <<"f">> >>
  /\ orch.result.FilesPickedEntry1 = << <<"g">> >>
  /\ EntriesNamed(orch.result.TreeHash, "g") = << EntryNamed(orch.tree1, "g") >>
  /\ EntriesNamed(orch.result.TreeHash, "f") = << EntryNamed(orch.tree1, "f") >>
  /\ Changed(EntryNamed(orch.tree1, "f"), EntryNamed(orch.mergeBase, "f"))

\* C14: MergeTree returns tree2 when tree1 is the merge base, tree1 when
\* tree2 is the merge base, and tree1 when tree1 and tree2 are the same
\* tree (so the merge of a tree with itself on itself returns it); in each
\* of these cases it stores no new object, its path lists are empty and the
\* resolver is not called.
C14_ShortCircuit ==
  (orch.op = "merge-tree" /\ orch.pc = "done" /\ ShortCircuit)
    => /\ orch.result.err = ""
       /\ orch.result.TreeHash =
            IF orch.tree1 = orch.mergeBase THEN orch.tree2 ELSE orch.tree1
       /\ orch.result.NewHashes = <<>>
       /\ orch.result.FilesPickedEntry1 = <<>>
       /\ orch.result.FilesPickedEntry2 = <<>>
       /\ orch.result.FilesPickedEntry12 = <<>>
       /\ orch.result.FilesConflict = <<>>
       /\ orch.result.resolver = orch.conflictResolver

\* MergeTree was called with tree1 being the merge base and tree2 another
\* tree, and returned tree2 without storing anything.
C14_Witness ==
  /\ orch.op = "merge-tree"
  /\ orch.pc = "done"
  /\ orch.tree1 = orch.mergeBase
  /\ orch.tree2 # orch.mergeBase
  /\ orch.result.TreeHash = orch.tree2
  /\ orch.result.NewHashes = <<>>

\* C15: for fixed input trees and a deterministic resolver, the result tree
\* of MergeTree is the same in every run, whatever order the entry names
\* of each directory level are visited in: it is the tree of the run that
\* visits the names in byte order.
C15_Determinism ==
  (orch.op = "merge-tree" /\ orch.pc = "done")
    => orch.result.TreeHash =
         MergeTreeIn("forward", "kept", orch.tree1, orch.tree2, orch.mergeBase,
                     orch.conflictResolver).TreeHash

(***************************************************************************)
(* get-merge-base (src/unnamed/part_007)                                   *)
(***************************************************************************)
\* Bound: the most commits the remote history grows to.
MaxDagCommits == 4

\* Bound: the longest list of commit hashes given to get-merge-base.
MaxInputs == 2

\* In this part a commit hash is a number and a history is a function from
\* the hashes of its commits to the sets of their parents' hashes.

\* The elements of a set of hashes, smallest first.
RECURSIVE Ascending(_)
Ascending(S) ==
  IF S = {} THEN <<>>
  ELSE LET m == CHOOSE x \in S : \A y \in S : x <= y
       IN <<m>> \o Ascending(S \ {m})

\* The keys of a map in the order a run iterates over them.
Iterate(S, order) == VisitOrder(order, Ascending(S))

\* The loop of findReachableCommits: queue holds the hashes still to visit.
RECURSIVE reachLoop(_, _, _)
reachLoop(commits, queue, reachables) ==
  IF queue = <<>> THEN reachables
  ELSE IF Head(queue) \in reachables THEN reachLoop(commits, Tail(queue), reachables)
  ELSE reachLoop(commits, Tail(queue) \o Ascending(commits[Head(queue)]),
                 reachables \cup {Head(queue)})

\* getMergeBase.findReachableCommits.
findReachableCommits(commits, startHash) == reachLoop(commits, <<startHash>>, {})

\* getMergeBase.fetch: the packfile holds the commits the wanted ones reach.
FetchCommitOnlyPackfile(rem, commitHashes) ==
  LET got == UNION {findReachableCommits(rem, commitHashes[i]) : i \in DOMAIN commitHashes}
  IN [c \in got |-> rem[c]]

\* parentToChildren[current] of setGenerationNumbers.
Children(commits, current, order) ==
  Iterate({c \in DOMAIN commits : current \in commits[c]}, order)

\* Mutation: a child keeps the first generation number it was given.
RECURSIVE childLoopFirstNumber(_, _, _)
childLoopFirstNumber(children, nextGen, g) ==
  IF children = <<>> THEN g
  ELSE LET child == Head(children)
           numbers == IF child \notin DOMAIN g.generationNumbers
                      THEN g.generationNumbers @@ (child :> nextGen)
                      ELSE g.generationNumbers
           left == g.numParents[child] - 1
       IN childLoopFirstNumber(Tail(children), nextGen,
                    [generationNumbers |-> numbers,
                     numParents |-> [g.numParents EXCEPT ![child] = left],
                     queue |-> IF left = 0 THEN Append(g.queue, child) ELSE g.queue])

\* The inner loop of setGenerationNumbers over the children of current; g
\* holds generationNumbers, numParents and the queue.
RECURSIVE childLoop(_, _, _)
childLoop(children, nextGen, g) ==
  IF children = <<>> THEN g
  ELSE LET child == Head(children)
           numbers == IF child \notin DOMAIN g.generationNumbers
                      THEN g.generationNumbers @@ (child :> nextGen)
                      ELSE IF g.generationNumbers[child] < nextGen
                      THEN [g.generationNumbers EXCEPT ![child] = nextGen]
                      ELSE g.generationNumbers
           left == g.numParents[child] - 1
       IN childLoop(Tail(children), nextGen,
                    [generationNumbers |-> numbers,
                     numParents |-> [g.numParents EXCEPT ![child] = left],
                     queue |-> IF left = 0 THEN Append(g.queue, child) ELSE g.queue])

\* The outer loop of setGenerationNumbers over the queue.
RECURSIVE queueLoop(_, _, _)
queueLoop(commits, order, g) ==
  IF g.queue = <<>> THEN g.generationNumbers
  ELSE queueLoop(commits, order,
                 childLoop(Children(commits, Head(g.queue), order),
                           g.generationNumbers[Head(g.queue)] + 1,
                           [g EXCEPT !.queue = Tail(@)]))

\* getMergeBase.setGenerationNumbers.
setGenerationNumbers(commits, order) ==
  LET firstGenerationHashes == Iterate({c \in DOMAIN commits : commits[c] = {}}, order)
  IN queueLoop(commits, order,
               [generationNumbers |-> [c \in Range(firstGenerationHashes) |-> 1],
                numParents |-> [c \in DOMAIN commits |-> Cardinality(commits[c])],
                queue |-> firstGenerationHashes])

\* The first loop of findMergeBases: the commits every input reaches.
RECURSIVE commonLoop(_, _, _)
commonLoop(commits, commitHashes, commonlyReachables) ==
  IF commitHashes = <<>> THEN commonlyReachables
  ELSE commonLoop(commits, Tail(commitHashes),
                  commonlyReachables \cap findReachableCommits(commits, Head(commitHashes)))

\* The second loop of findMergeBases: what a commit still held reaches,
\* but itself, is dropped.
RECURSIVE leafLoop(_, _, _)
leafLoop(commits, queue, commonlyReachables) ==
  IF queue = <<>> THEN commonlyReachables
  ELSE IF Head(queue) \notin commonlyReachables
  THEN leafLoop(commits, Tail(queue), commonlyReachables)
  ELSE leafLoop(commits, Tail(queue),
                commonlyReachables
                  \ (findReachableCommits(commits, Head(queue)) \ {Head(queue)}))

\* The commits left of the common ones, the queue being the common ones.
leaves(commits, order, commonlyReachables) ==
  leafLoop(commits, Iterate(commonlyReachables, order), commonlyReachables)

\* Mutation: the commits that reach no other common commit are kept, that
\* is the oldest common ancestors.
findMergeBasesOldest(commits, generationNumbers, commitHashes, order) ==
  {[CommitHash |-> c, Generation |-> generationNumbers[c]] :
     c \in {x \in commonLoop(commits, Tail(commitHashes),
                             findReachableCommits(commits, Head(commitHashes))) :
              commits[x] = {}}}

\* getMergeBase.findMergeBases: gmb.mergeBases, as a set.
findMergeBases(commits, generationNumbers, commitHashes, order) ==
  {[CommitHash |-> c, Generation |-> generationNumbers[c]] :
     c \in leaves(commits, order,
                  commonLoop(commits, Tail(commitHashes),
                             findReachableCommits(commits, Head(commitHashes))))}

\* Another client adds a commit to the remote: a root, a commit on another
\* one, or a merge.
RemoteCommit ==
  /\ orch.op = "get-merge-base"
  /\ orch.pc = "start"
  /\ Cardinality(DOMAIN remote) < MaxDagCommits
  /\ \E parents \in SUBSET DOMAIN remote :
       remote' = remote @@ ((Cardinality(DOMAIN remote) + 1) :> parents)
  /\ UNCHANGED <<others, push, orch, fetch>>

\* The step of GetMergeBase on the fetched commits.
GetMergeBaseRan(commitHashes, order, commits, generationNumbers) ==
  orch' = [orch EXCEPT !.pc = "done", !.commitHashes = commitHashes,
                       !.order = order, !.commits = commits,
                       !.generationNumbers = generationNumbers,
                       !.mergeBases = findMergeBases(commits, generationNumbers,
                                                     commitHashes, order)]

\* GetMergeBase: fetch, setGenerationNumbers, findMergeBases.
GetMergeBase ==
  /\ orch.op = "get-merge-base"
  /\ orch.pc = "start"
  /\ \E commitHashes \in SeqsUpTo(DOMAIN remote, MaxInputs) \ {<<>>},
        order \in {"forward", "backward"} :
       GetMergeBaseRan(commitHashes, order,
                       FetchCommitOnlyPackfile(remote, commitHashes),
                       setGenerationNumbers(FetchCommitOnlyPackfile(remote, commitHashes),
                                            order))
  /\ UNCHANGED <<remote, others, push, fetch>>

\* GetMergeBase when the fetch fails.
GetMergeBaseFetchFail ==
  /\ orch.op = "get-merge-base"
  /\ orch.pc = "start"
  /\ orch' = [orch EXCEPT !.pc = "done", !.error = "fetch failed"]
  /\ UNCHANGED <<remote, others, push, fetch>>

InitMergeBase ==
  /\ remote = (1 :> {})
  /\ others = 0
  /\ push = PushIdle
  /\ orch = [op |-> "get-merge-base", pc |-> "start", commitHashes |-> <<>>,
             order |-> "forward", commits |-> <<>>, generationNumbers |-> <<>>,
             mergeBases |-> {}, error |-> ""]
  /\ fetch = FetchIdle

NextMergeBase ==
  \/ RemoteCommit
  \/ GetMergeBase
  \/ GetMergeBaseFetchFail

SpecMergeBase == InitMergeBase /\ [][NextMergeBase]_vars

\* a is a proper ancestor of d in the remote history.
RECURSIVE IsAncestor(_, _)
IsAncestor(a, d) ==
  \E p \in remote[d] : p = a \/ IsAncestor(a, p)

\* The common ancestors of the inputs, a commit being its own ancestor.
CommonAncestors ==
  {c \in DOMAIN remote :
     \A i \in DOMAIN orch.commitHashes :
       c = orch.commitHashes[i] \/ IsAncestor(c, orch.commitHashes[i])}

\* C16: for a non-empty list of input commits get-merge-base returns
\* exactly the common ancestors of all inputs (a commit being its own
\* ancestor) that are not a proper ancestor of another common ancestor; so
\* no returned merge base is an ancestor of another one.
C16_MergeBases ==
  (orch.op = "get-merge-base" /\ orch.pc = "done" /\ orch.error = "")
    => LET found == {m.CommitHash : m \in orch.mergeBases}
       IN /\ found = {c \in CommonAncestors :
                        ~ \E d \in CommonAncestors : IsAncestor(c, d)}
          /\ \A c \in found, d \in found : ~IsAncestor(c, d)
          /\ Cardinality(orch.mergeBases) = Cardinality(found)

\* A criss-cross: the two inputs are two merges of the same two commits,
\* and these two are returned.
C16_Witness ==
  /\ orch.op = "get-merge-base"
  /\ orch.pc = "done"
  /\ orch.error = ""
  /\ Len(orch.commitHashes) = 2
  /\ orch.commitHashes[1] # orch.commitHashes[2]
  /\ Cardinality(remote[orch.commitHashes[1]]) = 2
  /\ remote[orch.commitHashes[1]] = remote[orch.commitHashes[2]]
  /\ {m.CommitHash : m \in orch.mergeBases} = remote[orch.commitHashes[1]]

\* C17: after get-merge-base has numbered a fully fetched history, every
\* fetched commit has a generation number, a root commit has generation 1
\* and any other commit has 1 + the largest generation of its parents, so
\* its generation is larger than that of each parent.
C17_Generations ==
  (orch.op = "get-merge-base" /\ orch.pc = "done" /\ orch.error = "")
    => LET gen == orch.generationNumbers
       IN /\ DOMAIN gen = DOMAIN orch.commits
          /\ \A i \in DOMAIN orch.commitHashes : orch.commitHashes[i] \in DOMAIN gen
          /\ \A c \in DOMAIN orch.commits :
               /\ orch.commits[c] = remote[c]
               /\ remote[c] \subseteq DOMAIN gen
               /\ remote[c] = {} => gen[c] = 1
               /\ remote[c] # {} =>
                    /\ \E p \in remote[c] : gen[c] = gen[p] + 1
                    /\ \A p \in remote[c] : gen[c] > gen[p]
          /\ \A m \in orch.mergeBases : m.Generation = gen[m.CommitHash]

\* A numbered history holds a merge of two commits of different
\* generations.
C17_Witness ==
  /\ orch.op = "get-merge-base"
  /\ orch.pc = "done"
  /\ orch.error = ""
  /\ \E c \in DOMAIN orch.commits :
       \E p \in orch.commits[c], q \in orch.commits[c] :
         /\ orch.generationNumbers[p] < orch.generationNumbers[q]
         /\ orch.generationNumbers[c] = orch.generationNumbers[q] + 1

(***************************************************************************)
(* get-branching-point (src/go.mod 57-206)                                 *)
(***************************************************************************)
\* Bound: the most commits the test repository grows to.
MaxHistory == 6

\* Bound: the most commits the test repository grows to where the end of
\* the loop is checked.
MaxFairHistory == 4

\* Bound: the largest initial depth a caller gives.
MaxInitialDepth == 2

\* The depth GetBranchingPoint starts with when the caller gives none.
DefaultDepth == 100

errNeedMoreCommits == "need to fetch more commits"

\* In this part the remote is a repository with the branch main and at most
\* one other checked-out branch: remote.commits maps a commit hash (a number)
\* to the set of its parents' hashes, remote.main and remote.branch are the
\* heads, remote.branch = 0 before the first checkout.

\* The commits at a distance below depth from the commits of frontier.
RECURSIVE Deepen(_, _, _)
Deepen(commits, frontier, depth) ==
  IF depth = 0 \/ frontier = {} THEN {}
  ELSE frontier \cup Deepen(commits, UNION {commits[c] : c \in frontier}, depth - 1)

\* fetch.FetchCommitOnlyPackfile with a depth: the server answers "deepen
\* depth" with the wanted commits and their ancestors at a distance below depth.
FetchCommitOnlyPackfileAtDepth(commits, wants, depth) ==
  [c \in Deepen(commits, wants, depth) |-> commits[c]]

\* The loop of getBranchingPoint.findReachableCommits: a hash is recorded
\* before its commit is looked up, a commit missing from the storage has no
\* parents to follow.
RECURSIVE shallowReachLoop(_, _, _)
shallowReachLoop(storage, queue, reachables) ==
  IF queue = <<>> THEN reachables
  ELSE IF Head(queue) \in reachables
       THEN shallowReachLoop(storage, Tail(queue), reachables)
  ELSE IF Head(queue) \notin DOMAIN storage
       THEN shallowReachLoop(storage, Tail(queue), reachables \cup {Head(queue)})
  ELSE shallowReachLoop(storage, Tail(queue) \o Ascending(storage[Head(queue)]),
                        reachables \cup {Head(queue)})

\* getBranchingPoint.findReachableCommits.
findReachableCommitsInStorage(storage, startHash) ==
  shallowReachLoop(storage, <<startHash>>, {})

RECURSIVE walk(_, _, _)
\* Mutation: the walk goes on through a commit with several parents.
walkAnyParent(storage, mainReachables, currentHash) ==
  IF currentHash \notin DOMAIN storage
  THEN [err |-> errNeedMoreCommits, hash |-> 0]
  ELSE IF Cardinality(storage[currentHash]) = 0
  THEN [err |-> "feature branch has an independent history", hash |-> 0]
  ELSE LET nextHash == CHOOSE h \in storage[currentHash] : TRUE
       IN IF nextHash \in mainReachables
          THEN [err |-> "", hash |-> nextHash]
          ELSE walk(storage, mainReachables, nextHash)

\* The loop of findBranchingPoint from currentHash.
walk(storage, mainReachables, currentHash) ==
  IF currentHash \notin DOMAIN storage
  THEN [err |-> errNeedMoreCommits, hash |-> 0]
  ELSE IF Cardinality(storage[currentHash]) = 0
  THEN [err |-> "feature branch has an independent history", hash |-> 0]
  ELSE IF Cardinality(storage[currentHash]) > 1
  THEN [err |-> "feature branch has a merge commit", hash |-> 0]
  ELSE LET nextHash == CHOOSE h \in storage[currentHash] : TRUE
       IN IF nextHash \in mainReachables
          THEN [err |-> "", hash |-> nextHash]
          ELSE walk(storage, mainReachables, nextHash)

\* getBranchingPoint.findBranchingPoint.
findBranchingPoint(storage, mainRefHash, featureRefHash) ==
  walk(storage, findReachableCommitsInStorage(storage, mainRefHash), featureRefHash)

\* The hash of the next commit of the repository.
NextCommit == Cardinality(DOMAIN remote.commits) + 1

\* repo.CommitFile on main.
CommitFileOnMain(limit) ==
  /\ orch.op = "get-branching-point"
  /\ orch.pc = "start"
  /\ NextCommit <= limit
  /\ remote' = [remote EXCEPT !.commits = @ @@ (NextCommit :> {remote.main}),
                              !.main = NextCommit]
  /\ UNCHANGED <<others, push, orch, fetch>>

\* git checkout -b of a new branch at any commit.
CheckoutBranch ==
  /\ orch.op = "get-branching-point"
  /\ orch.pc = "start"
  /\ \E start \in DOMAIN remote.commits \ {remote.branch} :
       remote' = [remote EXCEPT !.branch = start]
  /\ UNCHANGED <<others, push, orch, fetch>>

\* repo.CommitFile on the checked-out branch.
CommitFileOnBranch(limit) ==
  /\ orch.op = "get-branching-point"
  /\ orch.pc = "start"
  /\ remote.branch # 0
  /\ NextCommit <= limit
  /\ remote' = [remote EXCEPT !.commits = @ @@ (NextCommit :> {remote.branch}),
                              !.branch = NextCommit]
  /\ UNCHANGED <<others, push, orch, fetch>>

\* git merge --no-ff of the checked-out branch into main, when main does not
\* hold the branch yet.
MergeBranch(limit) ==
  /\ orch.op = "get-branching-point"
  /\ orch.pc = "start"
  /\ remote.branch # 0
  /\ NextCommit <= limit
  /\ remote.branch \notin findReachableCommits(remote.commits, remote.main)
  /\ remote' = [remote EXCEPT !.commits = @ @@ (NextCommit :> {remote.main, remote.branch}),
                              !.main = NextCommit]
  /\ UNCHANGED <<others, push, orch, fetch>>

\* git merge --no-ff of main into the checked-out branch, when the branch
\* does not hold main yet.
MergeMainIntoBranch(limit) ==
  /\ orch.op = "get-branching-point"
  /\ orch.pc = "start"
  /\ remote.branch # 0
  /\ NextCommit <= limit
  /\ remote.main \notin findReachableCommits(remote.commits, remote.branch)
  /\ remote' = [remote EXCEPT !.commits = @ @@ (NextCommit :> {remote.branch, remote.main}),
                              !.branch = NextCommit]
  /\ UNCHANGED <<others, push, orch, fetch>>

\* GetBranchingPoint up to the call of run.
GetBranchingPoint ==
  /\ orch.op = "get-branching-point"
  /\ orch.pc = "start"
  /\ remote.branch # 0
  /\ \E InitialDepth \in 0..MaxInitialDepth :
       orch' = [orch EXCEPT !.pc = "fetching",
                            !.mainRefHash = remote.main,
                            !.featureRefHash = remote.branch,
                            !.InitialDepth = InitialDepth,
                            !.fetchDepth = IF InitialDepth = 0 THEN DefaultDepth
                                           ELSE InitialDepth]
  /\ UNCHANGED <<remote, others, push, fetch>>

\* The record of the fetch that getBranchingPoint.fetch is about to make;
\* of the debug information only the request is kept.
FetchDebugInfo ==
  [wants |-> {orch.mainRefHash, orch.featureRefHash}, depth |-> orch.fetchDepth]

\* getBranchingPoint.fetch: the fetch is recorded whether it fails or not.
gbpFetch ==
  /\ orch.op = "get-branching-point"
  /\ orch.pc = "fetching"
  /\ \/ orch' = [orch EXCEPT !.pc = "walking",
                             !.fetchDebugInfos = Append(@, FetchDebugInfo),
                             !.storage = FetchCommitOnlyPackfileAtDepth(
                                           remote.commits,
                                           {orch.mainRefHash, orch.featureRefHash},
                                           orch.fetchDepth)]
     \* the request fails
     \/ orch' = [orch EXCEPT !.pc = "done",
                             !.fetchDebugInfos = Append(@, FetchDebugInfo),
                             !.error = "fetch failed"]
  /\ UNCHANGED <<remote, others, push, fetch>>

\* Mutation: a shallow miss adds one to the depth.
gbpRunOnDepthPlusOne(found) ==
  orch' = IF found.err = errNeedMoreCommits
          THEN [orch EXCEPT !.pc = "fetching", !.fetchDepth = @ + 1]
          ELSE [orch EXCEPT !.pc = "done", !.error = found.err,
                            !.branchingPointHash = found.hash]

\* The rest of an iteration of getBranchingPoint.run, given the outcome of
\* findBranchingPoint.
gbpRunOn(found) ==
  orch' = IF found.err = errNeedMoreCommits
          THEN [orch EXCEPT !.pc = "fetching", !.fetchDepth = @ * 2]
          ELSE [orch EXCEPT !.pc = "done", !.error = found.err,
                            !.branchingPointHash = found.hash]

\* getBranchingPoint.run after a fetch: findBranchingPoint, then the next
\* iteration at twice the depth or the return.
gbpFindBranchingPoint ==
  /\ orch.op = "get-branching-point"
  /\ orch.pc = "walking"
  /\ gbpRunOn(findBranchingPoint(orch.storage, orch.mainRefHash, orch.featureRefHash))
  /\ UNCHANGED <<remote, others, push, fetch>>

InitBranchingPoint ==
  /\ remote = [commits |-> (1 :> {}), main |-> 1, branch |-> 0]
  /\ others = 0
  /\ push = PushIdle
  /\ orch = [op |-> "get-branching-point", pc |-> "start", mainRefHash |-> 0,
             featureRefHash |-> 0, InitialDepth |-> 0, fetchDepth |-> 0,
             fetchDebugInfos |-> <<>>, storage |-> <<>>,
             branchingPointHash |-> 0, error |-> ""]
  /\ fetch = FetchIdle

\* The steps of a repository of at most limit commits and of one call of
\* GetBranchingPoint on it.
NextBranchingPointUpTo(limit) ==
  \/ CommitFileOnMain(limit)
  \/ CheckoutBranch
  \/ CommitFileOnBranch(limit)
  \/ MergeBranch(limit)
  \/ MergeMainIntoBranch(limit)
  \/ GetBranchingPoint
  \/ gbpFetch
  \/ gbpFindBranchingPoint

NextBranchingPoint == NextBranchingPointUpTo(MaxHistory)

SpecBranchingPoint == InitBranchingPoint /\ [][NextBranchingPoint]_vars

\* The first commit on the parent chain of c, starting with the parent of
\* c, that main reaches in the full history of the remote; 0 when the chain
\* meets a merge commit or a root before.
RECURSIVE FirstOnChain(_)
FirstOnChain(c) ==
  IF Cardinality(remote.commits[c]) # 1 THEN 0
  ELSE LET p == CHOOSE h \in remote.commits[c] : TRUE
       IN IF p \in findReachableCommits(remote.commits, remote.main) THEN p
          ELSE FirstOnChain(p)

\* C18: for a feature branch whose history is linear down to the first
\* commit that main reaches, get-branching-point returns that commit (the
\* walk starts with the parent of the feature head), whatever the initial
\* depth and also when main's history holds merge commits.
C18_BranchingPoint ==
  (/\ orch.op = "get-branching-point"
   /\ orch.pc = "done"
   /\ orch.error # "fetch failed"
   /\ FirstOnChain(orch.featureRefHash) # 0)
    => /\ orch.error = ""
       /\ orch.branchingPointHash = FirstOnChain(orch.featureRefHash)

\* The loop of getBranchingPoint.run neither waits nor stops between its
\* calls: a fetch that can be made is made, a walk that can start starts.
SpecBranchingPointFair ==
  /\ InitBranchingPoint
  /\ [][NextBranchingPointUpTo(MaxFairHistory)]_vars
  /\ WF_vars(gbpFetch)
  /\ WF_vars(gbpFindBranchingPoint)

\* The walk of the fetched commits ran off the fetched depth.
ShallowMiss ==
  /\ orch.op = "get-branching-point"
  /\ orch.pc = "walking"
  /\ findBranchingPoint(orch.storage, orch.mainRefHash, orch.featureRefHash).err
       = errNeedMoreCommits

\* The depth get-branching-point starts with.
FirstDepth == IF orch.InitialDepth = 0 THEN DefaultDepth ELSE orch.InitialDepth

\* The debug list holds one record of a fetch of both heads per fetch made,
\* at the depths d, 2d, 4d, ... from the first depth.
FetchesRecorded ==
  orch.pc \in {"fetching", "walking", "done"} =>
    /\ Len(orch.fetchDebugInfos) = (IF orch.pc = "fetching" THEN 0 ELSE 1)
         + Cardinality({i \in 1..Len(orch.fetchDebugInfos) :
                          orch.fetchDebugInfos[i].depth < orch.fetchDepth})
    /\ \A i \in 1..Len(orch.fetchDebugInfos) :
         /\ orch.fetchDebugInfos[i].wants = {orch.mainRefHash, orch.featureRefHash}
         /\ orch.fetchDebugInfos[i].depth
              = IF i = 1 THEN FirstDepth ELSE 2 * orch.fetchDebugInfos[i - 1].depth
    /\ orch.fetchDepth = IF orch.pc = "fetching" /\ orch.fetchDebugInfos # <<>>
                         THEN 2 * orch.fetchDebugInfos[Len(orch.fetchDebugInfos)].depth
                         ELSE IF orch.fetchDebugInfos = <<>> THEN FirstDepth
                         ELSE orch.fetchDebugInfos[Len(orch.fetchDebugInfos)].depth

\* C19: in get-branching-point a shallow miss is followed by a new fetch of
\* both heads at twice the previous depth, so the fetches are made at the
\* depths d, 2d, 4d, ... from the initial depth (100 when none is given) and
\* each is recorded in the debug list; and for any history and positive
\* initial depth the loop ends with a result or an error.
C19_DepthDoubling ==
  /\ [](orch.op = "get-branching-point" => FetchesRecorded)
  /\ [][ShallowMiss => /\ orch'.pc = "fetching"
                       /\ orch'.fetchDepth = 2 * orch.fetchDepth
                       /\ orch'.fetchDebugInfos = orch.fetchDebugInfos]_orch
  /\ [][(orch.op = "get-branching-point" /\ orch.pc = "fetching")
          => /\ orch'.fetchDebugInfos = Append(orch.fetchDebugInfos,
                   [wants |-> {orch.mainRefHash, orch.featureRefHash},
                    depth |-> orch.fetchDepth])
             /\ orch'.pc \in {"walking", "done"}]_orch
  /\ (orch.op = "get-branching-point" /\ orch.pc = "fetching")
       ~> (orch.pc = "done" /\ (orch.error # "" \/ orch.branchingPointHash # 0))

\* A run ended with a branching point after three fetches, at the depths
\* 1, 2 and 4.
C19_Witness ==
  /\ orch.op = "get-branching-point"
  /\ orch.pc = "done"
  /\ orch.error = ""
  /\ orch.branchingPointHash # 0
  /\ Len(orch.fetchDebugInfos) = 3
  /\ orch.fetchDebugInfos[1].depth = 1
  /\ orch.fetchDebugInfos[3].depth = 4

(***************************************************************************)
(* Backport without unresolved conflicts                                   *)
(***************************************************************************)
\* The commit the i-th commit of a backport is picked onto.
PickedOnto(i) ==
  IF i = 1 THEN orch.args.baseCommitHash ELSE orch.commandResults[i - 1].CommitHash

\* The blobs of the remote and those the run has made.
AllBlobs == RemoteBlobs \cup {o \in Range(orch.newObjects) : o.kind = "blob"}

\* The three-way merge of the trees of a commit, of the commit it is picked
\* onto and of its parent, in one pass with all blobs at hand.
ThreeWayMerge(commit, current) ==
  MergeTree(commit.tree, current.tree, commit.parents[1].tree,
            NewDiff3Resolver(AllBlobs, ".rej", "")).TreeHash

\* C20: when a backport of c1..cn onto base meets no unresolved conflict,
\* the i-th new commit has the tree of the three-way merge of tree(ci),
\* tree(current) and tree(parent(ci)) and the parent current, current being
\* the (i-1)-th new commit or the base for i = 1; and one ref update is
\* pushed, which sets the target ref to the n-th new commit and carries the
\* caller's expected current hash if one was given, none otherwise.
C20_BackportChain ==
  (orch.op = "backport" /\ orch.pc \in {"pushing", "done"} /\ push.pc # "idle")
    => LET a == orch.args
           n == Len(a.backportCommits)
       IN /\ Len(orch.commandResults) = n
          /\ \A i \in 1..n :
               LET new == orch.commandResults[i].CommitHash
               IN /\ new # EmptyString
                  /\ orch.commandResults[i].ConflictUnresolvedFiles = <<>>
                  /\ new.parents = << PickedOnto(i) >>
                  /\ new.tree = ThreeWayMerge(a.backportCommits[i], PickedOnto(i))
          /\ n > 0 =>
               push.updates = << RefUpdate(a.ref, a.currentRefHash,
                                           orch.commandResults[n].CommitHash) >>
          /\ Len(push.updates) = 1
          /\ Len(push.cmds) <= 1
          /\ \A i \in DOMAIN push.cmds :
               /\ push.cmds[i].Name = a.ref
               /\ push.cmds[i].New = push.updates[1].NewHash
               /\ a.currentRefHash # <<>> => push.cmds[i].Old = a.currentRefHash[1]

\* A backport of two commits with an expected current hash was pushed: the
\* second commit was merged onto the first new commit into a tree that is
\* neither its own nor the first one's.
C20_Witness ==
  /\ orch.op = "backport"
  /\ orch.pc = "done"
  /\ orch.error = ""
  /\ push.served
  /\ orch.args.currentRefHash # <<>>
  /\ Len(orch.commandResults) = 2
  /\ orch.commandResults[2].CommitHash.parents = << orch.commandResults[1].CommitHash >>
  /\ orch.commandResults[2].CommitHash.tree
       \notin {orch.args.backportCommits[2].tree, orch.commandResults[1].CommitHash.tree}
  /\ remote[orch.args.ref] = orch.commandResults[2].CommitHash

(***************************************************************************)
(* Linear rebase without unresolved conflicts                              *)
(***************************************************************************)
\* The commits after base up to c, oldest first, on a linear history.
RECURSIVE ChainOldestFirst(_, _)
ChainOldestFirst(c, base) ==
  IF Len(c.parents) # 1 THEN <<>>
  ELSE IF c.parents[1] = base THEN <<c>>
  ELSE Append(ChainOldestFirst(c.parents[1], base), c)

\* The commits of the i-th input branch of the rebase, oldest first: those
\* between its base commit and the head ls-refs returned.
BranchChain(i) ==
  ChainOldestFirst(orch.remote0[orch.args.refs[i].Ref], orch.args.refs[i].BaseCommit)

\* The commits of the first i input branches, in the order of the branches.
RECURSIVE ChainsUpTo(_)
ChainsUpTo(i) == IF i = 0 THEN <<>> ELSE ChainsUpTo(i - 1) \o BranchChain(i)

\* The input refs have different head commits.
DistinctHeads ==
  \A i, j \in DOMAIN orch.args.refs :
    i # j => orch.remote0[orch.args.refs[i].Ref] # orch.remote0[orch.args.refs[j].Ref]

\* C21: when a linear rebase of branches with different heads onto D meets
\* no unresolved conflict, the commits of the branches were replayed branch
\* by branch in input order and oldest first within a branch, each new
\* commit on top of the one made just before it (D for the first), as many
\* per branch as the branch had between its base and its head; the results
\* hold one entry per branch, in input order, with the last commit made for
\* the branch, so the new head of the first branch is on top of D and each
\* new head on top of the one before.
C21_StackReplayed ==
  (orch.op = "linear-rebase" /\ push.pc # "idle" /\ DistinctHeads)
    => LET a == orch.args
           k == Len(a.refs)
           new == orch.newCommits
           res == orch.linearRebaseResults
       IN /\ Len(new) = Len(ChainsUpTo(k))
          /\ \A j \in DOMAIN new :
               /\ new[j].msg = ChainsUpTo(k)[j].msg
               /\ new[j].parents = << IF j = 1 THEN a.destinationCommit ELSE new[j - 1] >>
          /\ Len(res) = k
          /\ \A i \in 1..k :
               /\ res[i].Ref = a.refs[i].Ref
               /\ Len(BranchChain(i)) >= 1
               /\ res[i].CommitHash = new[Len(ChainsUpTo(i))]
               /\ OnTopOf(res[i].CommitHash,
                          IF i = 1 THEN a.destinationCommit ELSE res[i - 1].CommitHash)

\* A rebase of two stacked branches of one commit each, onto a commit that
\* changed the file the first branch changes, was pushed.
C21_Witness ==
  /\ orch.op = "linear-rebase"
  /\ orch.pc = "done"
  /\ orch.error = ""
  /\ push.served
  /\ DistinctHeads
  /\ orch.args.destinationCommit = DB
  /\ Len(orch.args.refs) = 2
  /\ orch.args.refs[2].BaseCommit = orch.remote0[orch.args.refs[1].Ref]
  /\ Len(orch.newCommits) = 2
  /\ orch.linearRebaseResults[1].ConflictResolvedFiles # <<>>
  /\ orch.linearRebaseResults[2].CommitHash.parents
       = << orch.linearRebaseResults[1].CommitHash >>

(***************************************************************************)
(* The packfile of a fetch (src/internal/fetch/common.go, fetchPackfile)   *)
(***************************************************************************)
\* Longest response scanned in one attempt, in chunks.
MaxChunks == 3
\* Largest fetch-retry-count tried for a fetch of a packfile.
MaxPackfileRetryCount == 2

\* The bytes of a pkt-line are a sequence of tokens, a token standing for a
\* run of bytes; the first byte of a sideband packet is its band.
BandMain == "\\1"
BandReport == "\\2"
BandError == "\\3"

\* The chunks a protocol v2 response is scanned into.
EndResponse == [EndResponse |-> TRUE, Delimiter |-> FALSE, Response |-> <<>>]
Delimiter == [EndResponse |-> FALSE, Delimiter |-> TRUE, Response |-> <<>>]
BytesChunk(bytes) == [EndResponse |-> FALSE, Delimiter |-> FALSE, Response |-> bytes]

\* The pkt-lines a server sends.
PktLines ==
  { <<"shallow-info\n">>, <<"shallow ", "h\n">>, <<"packfile\n">>,
    <<BandMain, "a">>, <<BandMain, "b">>, <<BandReport, "progress">>,
    <<BandError, "fatal">>, <<"x">> }

ResponseChunks == {EndResponse, Delimiter} \cup { BytesChunk(l) : l \in PktLines }

\* gitprotocolio.ParseSideBandPacket: the band and the payload, or nil.
ParseSideBandPacket(bytes) ==
  IF bytes = <<>> THEN [nil |-> TRUE, band |-> "", payload |-> <<>>]
  ELSE IF Head(bytes) \in {BandMain, BandReport, BandError}
       THEN [nil |-> FALSE, band |-> Head(bytes), payload |-> Tail(bytes)]
       ELSE [nil |-> TRUE, band |-> "", payload |-> <<>>]

PackfileFetchIdle ==
  [pc |-> "idle", retryCount |-> 0, attempts |-> 0, isPackfile |-> FALSE,
   packfile |-> <<>>, response |-> <<>>, result |-> "", bytes |-> <<>>, err |-> ""]

\* fetchPackfile is entered: the buffer is made, and callProtocolV2 starts
\* its first attempt.
fetchPackfile ==
  /\ fetch.pc = "idle"
  /\ \E value \in (-1)..MaxPackfileRetryCount :
       fetch' = [PackfileFetchIdle EXCEPT !.pc = "scan",
                                          !.retryCount = GitFetchRetryCount(value)]
  /\ UNCHANGED <<remote, others, push, orch>>

\* The end of an attempt that failed with err: callProtocolV2 decrements the
\* count and returns the errors or calls the parser again on a new response.
attemptFailed(err) ==
  IF fetch.retryCount - 1 <= 0
  THEN [fetch EXCEPT !.pc = "done", !.attempts = @ + 1, !.retryCount = @ - 1,
                     !.result = "failed", !.err = err, !.bytes = <<>>]
  ELSE [fetch EXCEPT !.attempts = @ + 1, !.retryCount = @ - 1,
                     !.isPackfile = FALSE, !.response = <<>>]

\* The end of an attempt whose parser returned nil: fetchPackfile returns the
\* bytes of the buffer.
attemptDone(f) ==
  [f EXCEPT !.pc = "done", !.attempts = @ + 1, !.result = "ok",
            !.bytes = f.packfile]

\* One turn of the parser's loop over the chunks of the response.
ScanChunk ==
  /\ fetch.pc = "scan"
  /\ Len(fetch.response) < MaxChunks
  /\ \E chunk \in ResponseChunks :
       LET got == [fetch EXCEPT !.response = Append(@, chunk)]
           pkt == ParseSideBandPacket(chunk.Response)
       IN fetch' =
            IF chunk.EndResponse THEN attemptDone(got)
            ELSE IF chunk.Delimiter THEN got
            ELSE IF fetch.isPackfile
              THEN IF pkt.nil THEN attemptFailed("unexpected non-sideband packet")
                   ELSE IF pkt.band = BandMain
                     THEN [got EXCEPT !.packfile = @ \o pkt.payload]
                     ELSE got
              ELSE IF chunk.Response = <<"shallow-info\n">> THEN got
              ELSE IF Head(chunk.Response) = "shallow " THEN got
              ELSE IF chunk.Response = <<"packfile\n">>
                THEN [got EXCEPT !.isPackfile = TRUE]
                ELSE got
  /\ UNCHANGED <<remote, others, push, orch>>

\* The scanner stops at the end of the stream with no error.
ScanEnds ==
  /\ fetch.pc = "scan"
  /\ fetch' = attemptDone(fetch)
  /\ UNCHANGED <<remote, others, push, orch>>

\* The scanner stops with an error: the stream broke or timed out, or the
\* bytes read are no pkt-line.
ScanFails ==
  /\ fetch.pc = "scan"
  /\ fetch' = attemptFailed("failed to parse the protov2 response")
  /\ UNCHANGED <<remote, others, push, orch>>

InitFetchPackfile ==
  /\ remote = [r \in RefNames |-> ZeroHash]
  /\ others = 0
  /\ push = PushIdle
  /\ orch = [op |-> "fetch-packfile", pc |-> "start", args |-> <<>>, error |-> ""]
  /\ fetch = PackfileFetchIdle

NextFetchPackfile ==
  \/ fetchPackfile
  \/ ScanChunk
  \/ ScanEnds
  \/ ScanFails

SpecFetchPackfile == InitFetchPackfile /\ [][NextFetchPackfile]_vars

\* The band-1 payloads of the packfile section of a response, in order: the
\* section starts after the line "packfile\n".
RECURSIVE MainPayloads(_, _)
MainPayloads(response, inSection) ==
  IF response = <<>> THEN <<>>
  ELSE LET chunk == Head(response)
           bytes == chunk.Response
       IN IF chunk.EndResponse THEN <<>>
          ELSE IF chunk.Delimiter \/ bytes = <<>>
            THEN MainPayloads(Tail(response), inSection)
          ELSE IF inSection
            THEN (IF Head(bytes) = BandMain THEN Tail(bytes) ELSE <<>>)
                   \o MainPayloads(Tail(response), inSection)
            ELSE MainPayloads(Tail(response), bytes = <<"packfile\n">>)

\* C22: the bytes a fetch returns are the band-1 payloads of the packfile
\* section of the server's response, concatenated in order; band-2 packets,
\* shallow-info lines and delimiters contribute no bytes.
C22_SidebandFidelity ==
  (fetch.pc = "done" /\ fetch.result = "ok")
    => fetch.bytes = MainPayloads(fetch.response, FALSE)

\* The same for the fetches that returned with their first attempt.
SidebandFidelityOfOneAttempt ==
  (fetch.pc = "done" /\ fetch.result = "ok" /\ fetch.attempts = 1)
    => fetch.bytes = MainPayloads(fetch.response, FALSE)

(***************************************************************************)
(* The output of an invocation whose push the server rejected              *)
(***************************************************************************)
\* The server executed the push and reported a command as not ok.
PushRejected ==
  /\ push.pc = "done"
  /\ push.served
  /\ \E i \in DOMAIN push.status : push.status[i] # "ok"

\* The results of the output name the commits the push was to set the refs
\* to.
ResultsReturned ==
  CASE orch.op = "update-refs" -> TRUE
    [] orch.op = "squash-cherry-pick" ->
         orch.result.CommitHash = push.updates[1].NewHash
    [] orch.op = "backport" ->
         /\ orch.commandResults # <<>>
         /\ orch.commandResults[Len(orch.commandResults)].CommitHash
              = push.updates[1].NewHash
    [] orch.op = "linear-rebase" ->
         /\ Len(orch.linearRebaseResults) = Len(push.updates)
         /\ \A i \in DOMAIN push.updates :
              orch.linearRebaseResults[i].CommitHash = push.updates[i].NewHash

\* C23: when the server rejects the final push, the output of
\* squash-cherry-pick, backport, linear-rebase and update-refs carries the
\* error message, the results computed so far, and the push debug record
\* with the server's unpack status and the status of each command.
C23_RejectedPushOutput ==
  (/\ orch.op \in {"update-refs", "squash-cherry-pick", "backport", "linear-rebase"}
   /\ orch.pc = "done"
   /\ PushRejected)
    => /\ orch.error # ""
       /\ ResultsReturned
       /\ orch.pushDebugInfo = << PushDebugInfo(push) >>

(***************************************************************************)
(* The two merge passes of squash-cherry-pick, backport and linear-rebase  *)
(***************************************************************************)
\* The commits a linear rebase replays, oldest first, in the order of the
\* branches.
RECURSIVE ReplayedCommits(_)
ReplayedCommits(branches) ==
  IF branches = <<>> THEN <<>>
  ELSE LET c == Head(branches).commits
       IN [j \in DOMAIN c |-> c[Len(c) + 1 - j]] \o ReplayedCommits(Tail(branches))

\* The trees of the i-th merge of the run: theirs, ours and the base.
MergeOf(i) ==
  CASE orch.op = "squash-cherry-pick" ->
         [tree1 |-> orch.args.from.tree, tree2 |-> orch.args.to.tree,
          mergeBase |-> orch.args.base.tree]
    [] orch.op = "backport" ->
         [tree1 |-> orch.args.backportCommits[i].tree,
          tree2 |-> PickedOnto(i).tree,
          mergeBase |-> orch.args.backportCommits[i].parents[1].tree]
    [] orch.op = "linear-rebase" ->
         LET target == ReplayedCommits(findBranches(orch.refs).branches)[i]
         IN [tree1 |-> target.tree,
             tree2 |-> (IF i = 1 THEN orch.args.destinationCommit
                        ELSE orch.newCommits[i - 1]).tree,
             mergeBase |-> target.parents[1].tree]

\* The commit made from the i-th merge of the run, ZeroHash when none was.
CommitOf(i) ==
  CASE orch.op = "squash-cherry-pick" -> orch.result.CommitHash
    [] orch.op = "backport" ->
         IF orch.commandResults[i].CommitHash = EmptyString THEN ZeroHash
         ELSE orch.commandResults[i].CommitHash
    [] orch.op = "linear-rebase" ->
         IF i <= Len(orch.newCommits) THEN orch.newCommits[i] ELSE ZeroHash

\* The commits the run made.
CommitsMade ==
  CASE orch.op = "squash-cherry-pick" ->
         IF orch.result.CommitHash = ZeroHash THEN 0 ELSE 1
    [] orch.op = "backport" ->
         Cardinality({i \in DOMAIN orch.commandResults :
                        orch.commandResults[i].CommitHash # EmptyString})
    [] orch.op = "linear-rebase" -> Len(orch.newCommits)

\* The blobs of the remote and those the run has made.
BlobsAtHand ==
  RemoteBlobs \cup
    {o \in (CASE orch.op = "squash-cherry-pick" -> orch.packfile
              [] orch.op = "backport" -> Range(orch.newObjects)
              [] orch.op = "linear-rebase" -> orch.newObjectHashes) : o.kind = "blob"}

\* The record m of a merge and the commit made from it agree with the
\* collector pass first over the trees of the merge.
PassesInOrder(m, first, commit, in) ==
  /\ m.conflicts = first.FilesConflict
  /\ m.blobHashes = first.resolver.blobHashes
  /\ m.blobFetches
       = (IF Len(first.FilesConflict) > 0 /\ Len(first.resolver.blobHashes) > 0
          THEN 1 ELSE 0)
  /\ m.passes = (IF Len(first.FilesConflict) > 0 /\ m.err # "fetch failed" THEN 2 ELSE 1)
  /\ commit # ZeroHash
       => commit.tree
            = (IF Len(first.FilesConflict) = 0 THEN first.TreeHash
               ELSE MergeTree(in.tree1, in.tree2, in.mergeBase,
                              NewDiff3Resolver(BlobsAtHand, ".rej", "")).TreeHash)

\* The i-th merge of the run.
MergeInOrder(i, in) ==
  PassesInOrder(orch.merges[i],
                MergeTree(in.tree1, in.tree2, in.mergeBase, NewCollector({})),
                CommitOf(i), in)

\* C24: in squash-cherry-pick, backport and linear-rebase blobs are fetched
\* only after a collector pass that reported a conflict and collected blob
\* hashes, and then the merge is run again with the diff3 resolver before a
\* commit is made from it; after a collector pass without conflict there is
\* no blob fetch and no second pass and the tree of that pass is the one
\* committed; every commit comes from a merge.
C24_TwoPasses ==
  orch.op \in {"squash-cherry-pick", "backport", "linear-rebase"}
    => /\ CommitsMade <= Len(orch.merges)
       /\ \A i \in DOMAIN orch.merges : MergeInOrder(i, MergeOf(i))

\* A commit was made after a blob fetch and a second pass, and was pushed.
C24_Witness ==
  /\ orch.op \in {"squash-cherry-pick", "backport", "linear-rebase"}
  /\ orch.pc = "done"
  /\ push.served
  /\ \E i \in DOMAIN orch.merges :
       /\ orch.merges[i].blobFetches = 1
       /\ orch.merges[i].passes = 2
       /\ CommitOf(i) # ZeroHash
       /\ CommitOf(i).tree # orch.merges[i].firstTree

(***************************************************************************)
(* The order and the shape of the branches of a linear rebase              *)
(***************************************************************************)
\* The run of the rebase was entered with the refs ls-refs returned.
RebaseRan ==
  /\ orch.op = "linear-rebase"
  /\ orch.pc \in {"pushing", "done"}
  /\ orch.refs # <<>>

\* The root branches: those whose base commit is the head of no other
\* input branch.
RootBranches ==
  {i \in DOMAIN orch.refs :
     \A j \in DOMAIN orch.refs \ {i} : orch.refs[i].baseCommit # orch.refs[j].headCommit}

\* The child link: branch j starts at the head of branch i.
ChildBranch(i, j) ==
  i # j /\ orch.refs[j].baseCommit = orch.refs[i].headCommit

\* A commit with more than one parent lies between c and base.
RECURSIVE HasMergeCommit(_, _)
HasMergeCommit(c, base) ==
  IF c = base \/ Len(c.parents) = 0 THEN FALSE
  ELSE IF Len(c.parents) > 1 THEN TRUE
  ELSE HasMergeCommit(c.parents[1], base)

\* The place of a ref among the input refs.
RefIndex(ref) == CHOOSE i \in DOMAIN orch.refs : orch.refs[i].ref = ref

\* C25: a linear rebase replays the root branch first and then follows the
\* child links, and it returns an error and pushes nothing when there is
\* no root branch, when there are several, or when a branch holds a merge
\* commit.
C25_RootOrder ==
  RebaseRan
    => /\ (\/ Cardinality(RootBranches) # 1
           \/ \E i \in DOMAIN orch.refs :
                HasMergeCommit(orch.refs[i].headCommit, orch.refs[i].baseCommit))
            => (orch.error # "" /\ push.pc = "idle")
       /\ (orch.error = "" /\ push.pc # "idle")
            => LET res == orch.linearRebaseResults
               IN /\ RefIndex(res[1].Ref) \in RootBranches
                  /\ \A k \in 1..(Len(res) - 1) :
                       ChildBranch(RefIndex(res[k].Ref), RefIndex(res[k + 1].Ref))

\* Two input refs point at the same head commit.
SameHeads ==
  \E i, j \in DOMAIN orch.refs : i # j /\ orch.refs[i].headCommit = orch.refs[j].headCommit

\* C26: when two input refs of a linear rebase point at the same head
\* commit, the rebase returns an error and pushes nothing.
C26_SameHeadRejected ==
  (RebaseRan /\ SameHeads) => (orch.error # "" /\ push.pc = "idle")

(***************************************************************************)
(* The errors of get-branching-point                                       *)
(***************************************************************************)
\* How the walk from c ends in the full history of the remote: at a commit
\* with several parents, at a commit with none, or with a parent that main
\* reaches.
RECURSIVE ChainEnd(_)
ChainEnd(c) ==
  IF Cardinality(remote.commits[c]) = 0 THEN "root"
  ELSE IF Cardinality(remote.commits[c]) > 1 THEN "merge"
  ELSE LET p == CHOOSE h \in remote.commits[c] : TRUE
       IN IF p \in findReachableCommits(remote.commits, remote.main) THEN "found"
          ELSE ChainEnd(p)

\* A commit with several parents lies on the chain of single parents of c.
RECURSIVE ChainHasMerge(_)
ChainHasMerge(c) ==
  IF Cardinality(remote.commits[c]) = 0 THEN FALSE
  ELSE IF Cardinality(remote.commits[c]) > 1 THEN TRUE
  ELSE ChainHasMerge(CHOOSE h \in remote.commits[c] : TRUE)

\* Main's history holds a merge commit.
MainHasMerge ==
  \E c \in findReachableCommits(remote.commits, remote.main) :
    Cardinality(remote.commits[c]) > 1

IsConflict(ea, eb, eo) == Changed(ea, eo) /\ Changed(eb, eo) /\ Changed(ea, eb)

\* The calls of the resolver with the parent path and the three entries.
CallsWith(res, pth, ea, eb, eo) ==
  {k \in DOMAIN res.resolver.calls :
     /\ res.resolver.calls[k].parentPath = pth
     /\ res.resolver.calls[k].entry1 = ea
     /\ res.resolver.calls[k].entry2 = eb
     /\ res.resolver.calls[k].entryBase = eo}

\* How often x occurs in the sequence.
Count(seq, x) == Cardinality({i \in DOMAIN seq : seq[i] = x})

\* The entries under the directory entries named name of a tree.
DirsNamed(tree, name) ==
  SelectSeq(tree.entries, LAMBDA e : e.Name = name /\ e.Mode = "dir")

\* The entries the merged tree out is to hold for one name.
ExpectedFor(name, ea, eb, eo, out, pth, res) ==
  IF ~Changed(ea, eo) /\ ~Changed(eb, eo) THEN Kept(eo)
  ELSE IF ~Changed(eb, eo) THEN Kept(ea)
  ELSE IF ~Changed(ea, eo) THEN Kept(eb)
  ELSE IF ~Changed(ea, eb) THEN Kept(ea)
  ELSE IF ea.Mode = "dir" /\ eb.Mode = "dir" THEN DirsNamed(out, name)
  ELSE IF Cardinality(CallsWith(res, pth, ea, eb, eo)) # 1 THEN <<>>
  ELSE res.resolver.calls[CHOOSE k \in CallsWith(res, pth, ea, eb, eo) : TRUE].entries

\* The entries the merged tree out is to hold for the names given.
RECURSIVE ExpectedEntries(_, _, _, _, _, _, _)
ExpectedEntries(names, a, b, base, out, pth, res) ==
  IF names = <<>> THEN <<>>
  ELSE ExpectedFor(Head(names), EntryNamed(a, Head(names)), EntryNamed(b, Head(names)),
                   EntryNamed(base, Head(names)), out, pth, res)
         \o ExpectedEntries(Tail(names), a, b, base, out, pth, res)

\* Two sequences hold the same elements as often.
SameBag(s, t) ==
  /\ Len(s) = Len(t)
  /\ \A x \in Range(s) \cup Range(t) : Count(s, x) = Count(t, x)

\* The conflicts of the directory level pth and of the levels below were
\* handled as C28 states.
RECURSIVE ConflictsOk(_, _, _, _, _, _)
ConflictsOk(a, b, base, out, pth, res) ==
  /\ SameBag(out.entries,
             ExpectedEntries(MergeNames(a, b, base), a, b, base, out, pth, res))
  /\ \A name \in Range(MergeNames(a, b, base)) :
       LET ea == EntryNamed(a, name)
           eb == EntryNamed(b, name)
           eo == EntryNamed(base, name)
           here == Append(pth, name)
       IN IsConflict(ea, eb, eo) =>
            IF ea.Mode = "dir" /\ eb.Mode = "dir"
            THEN /\ Len(DirsNamed(out, name)) = 1
                 /\ Count(res.FilesConflict, here) = 0
                 /\ CallsWith(res, pth, ea, eb, eo) = {}
                 /\ ConflictsOk(ea.Hash, eb.Hash,
                                IF eo.Mode = "dir" THEN eo.Hash ELSE NilTree,
                                DirsNamed(out, name)[1].Hash, here, res)
            ELSE /\ Count(res.FilesConflict, here) = 1
                 /\ Cardinality(CallsWith(res, pth, ea, eb, eo)) = 1

\* C28: for a name in conflict MergeTree merges the two directories, with
\* the subtree of the base entry only when that entry is a directory;
\* for any other pair it lists the path in FilesConflict and calls the
\* resolver once, with the parent path and the three entries, and the
\* entries the resolver returns, however many, stand in the merged tree in
\* place of the name.
C28_ConflictCase ==
  (orch.op = "merge-tree" /\ orch.pc = "done" /\ orch.result.err = "" /\ ~ShortCircuit)
    => /\ ConflictsOk(orch.tree1, orch.tree2, orch.mergeBase, orch.result.TreeHash,
                      <<>>, orch.result)
       /\ Len(orch.result.resolver.calls) = Len(orch.result.FilesConflict)

\* A merge went into a directory both sides changed while the base holds no
\* directory of that name, met a conflict there, and the entries the
\* resolver returned stand in the merged subtree.
C28_Witness ==
  /\ orch.op = "merge-tree"
  /\ orch.pc = "done"
  /\ orch.result.err = ""
  /\ ~ShortCircuit
  /\ \E k \in DOMAIN orch.result.resolver.calls :
       LET call == orch.result.resolver.calls[k]
       IN /\ Len(call.parentPath) = 1
          /\ call.entries # <<>>
          /\ EntryNamed(orch.mergeBase, call.parentPath[1]).Mode # "dir"
          /\ Len(DirsNamed(orch.result.TreeHash, call.parentPath[1])) = 1
          /\ Range(call.entries)
               \subseteq Range(DirsNamed(orch.result.TreeHash, call.parentPath[1])[1].Hash.entries)

(***************************************************************************)
(* The path lists of a MergeResult                                         *)
(***************************************************************************)
\* The four path lists of a MergeResult, one after another.
PathLists(res) ==
  res.FilesPickedEntry1 \o res.FilesPickedEntry2 \o res.FilesPickedEntry12
    \o res.FilesConflict

\* C29: in every MergeResult the four path lists, picked from side 1,
\* picked from side 2, picked from both and conflict, are pairwise disjoint
\* and none of them holds a path twice: no path occurs twice in the four
\* lists taken together.
C29_DisjointLists ==
  (orch.op = "merge-tree" /\ orch.pc = "done" /\ orch.result.err = "")
    => \A p \in Range(PathLists(orch.result)) : Count(PathLists(orch.result), p) = 1

\* A merge that walked the trees listed paths in three of the four lists.
C29_Witness ==
  /\ orch.op = "merge-tree"
  /\ orch.pc = "done"
  /\ orch.result.err = ""
  /\ Cardinality({l \in {"FilesPickedEntry1", "FilesPickedEntry2",
                         "FilesPickedEntry12", "FilesConflict"} :
                    orch.result[l] # <<>>}) >= 3
  /\ Len(PathLists(orch.result)) >= 3

(***************************************************************************)
(* diff.DiffTree (src/internal/diff/tree_differ.go)                        *)
(***************************************************************************)
\* BlobHashes{BlobHash1, BlobHash2}.
BlobHashes(hash1, hash2) == [BlobHash1 |-> hash1, BlobHash2 |-> hash2]

\* &treeDiffer{}: modified is the map from paths to BlobHashes, as the set
\* of its pairs; diffed lists the paths Diff was called with.
NewTreeDiffer == [modified |-> {}, diffed |-> <<>>]

\* td.modified[pth] = hashes.
SetModified(td, pth, hashes) ==
  [td EXCEPT !.modified = {m \in @ : m.path # pth}
                            \cup {[path |-> pth, hashes |-> hashes]}]

RECURSIVE handleSubEntries(_, _, _, _)

\* Mutation: a directory that exists on one side only is not entered.
handleExistOnlyInOneSideFilesOnly(td, pth, entry, isTree1) ==
  IF IsFile(entry)
  THEN SetModified(td, Append(pth, entry.Name),
                   IF isTree1 THEN BlobHashes(entry.Hash, ZeroHash)
                   ELSE BlobHashes(ZeroHash, entry.Hash))
  ELSE td

\* treeDiffer.handleExistOnlyInOneSide.
handleExistOnlyInOneSide(td, pth, entry, isTree1) ==
  IF IsFile(entry)
  THEN SetModified(td, Append(pth, entry.Name),
                   IF isTree1 THEN BlobHashes(entry.Hash, ZeroHash)
                   ELSE BlobHashes(ZeroHash, entry.Hash))
  ELSE handleSubEntries(td, Append(pth, entry.Name), entry.Hash.entries, isTree1)

\* The loop over subtree.Entries in handleExistOnlyInOneSide.
handleSubEntries(td, subtreePath, entries, isTree1) ==
  IF entries = <<>> THEN td
  ELSE handleSubEntries(handleExistOnlyInOneSide(td, subtreePath, Head(entries), isTree1),
                        subtreePath, Tail(entries), isTree1)

\* The names of the two trees, in byte order.
DiffNames(tree1, tree2) ==
  LET present == {e.Name : e \in Range(tree1.entries) \cup Range(tree2.entries)}
  IN SelectSeq([i \in DOMAIN NameTable |-> NameTable[i][1]], LAMBDA n : n \in present)

RECURSIVE Diff(_, _, _, _, _)

\* One turn of the loop over the names in treeDiffer.Diff.
diffEntry(td, order, here, pth, entry1, entry2) ==
  IF entry1.Mode = "nil" THEN handleExistOnlyInOneSide(td, pth, entry2, FALSE)
  ELSE IF entry2.Mode = "nil" THEN handleExistOnlyInOneSide(td, pth, entry1, TRUE)
  ELSE IF entry1.Hash = entry2.Hash THEN td
  ELSE IF IsFile(entry1) /\ IsFile(entry2)
    THEN SetModified(td, here, BlobHashes(entry1.Hash, entry2.Hash))
  ELSE IF ~IsFile(entry1) /\ IsFile(entry2)
    THEN handleExistOnlyInOneSide(SetModified(td, here, BlobHashes(ZeroHash, entry2.Hash)),
                                  pth, entry1, TRUE)
  ELSE IF IsFile(entry1) /\ ~IsFile(entry2)
    THEN handleExistOnlyInOneSide(SetModified(td, here, BlobHashes(entry1.Hash, ZeroHash)),
                                  pth, entry2, FALSE)
  ELSE Diff(td, order, here, entry1.Hash, entry2.Hash)

\* The loop over the names in treeDiffer.Diff.
RECURSIVE diffEntries(_, _, _, _, _, _)
diffEntries(td, order, names, pth, tree1, tree2) ==
  IF names = <<>> THEN td
  ELSE diffEntries(diffEntry(td, order, Append(pth, Head(names)), pth,
                             EntryNamed(tree1, Head(names)),
                             EntryNamed(tree2, Head(names))),
                   order, Tail(names), pth, tree1, tree2)

\* treeDiffer.Diff, in a run in which the maps of names are iterated in the
\* given order.
Diff(td, order, pth, tree1, tree2) ==
  diffEntries([td EXCEPT !.diffed = Append(@, pth)], order,
              VisitOrder(order, DiffNames(tree1, tree2)), pth, tree1, tree2)

\* diff.DiffTree.
DiffTree(order, tree1, tree2) == Diff(NewTreeDiffer, order, <<>>, tree1, tree2)

(***************************************************************************)
(* DiffTree as a function of its two trees                                 *)
(***************************************************************************)
\* How many blobs the files of the trees are drawn from.
MaxDiffBlobs == 2

DiffBlobPool == <<B0, BA, BC, BB>>

DiffBlobs == {DiffBlobPool[i] : i \in 1..MaxDiffBlobs}

\* What a tree may hold under a name: nothing, a file, or one of the given
\* directories.
DiffEntriesOf(name, dirs) ==
  {<<>>} \cup {<< Entry(name, "file", b) >> : b \in DiffBlobs}
         \cup {<< Entry(name, "dir", t) >> : t \in dirs}

\* The trees that hold f and g, files or the given directories; a tree
\* object is never empty.
DiffTreesOver(dirs) ==
  {Tree(ef \o eg) : ef \in DiffEntriesOf("f", dirs), eg \in DiffEntriesOf("g", dirs)}
    \ {Tree(<<>>)}

\* Trees of files, trees with directories of files, directories d that hold
\* such trees, and an executable f.
DiffTrees ==
  DiffTreesOver(DiffTreesOver({}))
    \cup {Tree(<< Entry("d", "dir", t) >>) : t \in DiffTreesOver({FileTree(B0)})}
    \cup {Tree(<< Entry("f", "exec", b) >>) : b \in DiffBlobs}

\* A call of DiffTree on the two trees.
CallDiffTree ==
  /\ orch.op = "diff-tree"
  /\ orch.pc = "start"
  /\ orch' = [orch EXCEPT !.pc = "done",
                          !.result = DiffTree(orch.order, orch.tree1, orch.tree2)]
  /\ UNCHANGED <<remote, others, push, fetch>>

InitDiff ==
  /\ remote = [n \in RefNames |-> ZeroHash]
  /\ others = 0
  /\ push = PushIdle
  /\ fetch = FetchIdle
  /\ \E tree1 \in DiffTrees, tree2 \in DiffTrees, order \in {"forward", "backward"} :
       orch = [op |-> "diff-tree", pc |-> "start", tree1 |-> tree1, tree2 |-> tree2,
               order |-> order, result |-> NewTreeDiffer]

NextDiff == CallDiffTree

SpecDiff == InitDiff /\ [][NextDiff]_vars

\* The leaf files of a tree: the paths of its files, at any depth, with
\* their hashes.
RECURSIVE LeafFiles(_, _)
LeafFiles(tree, pth) ==
  UNION {IF IsFile(tree.entries[i])
         THEN {[path |-> Append(pth, tree.entries[i].Name), hash |-> tree.entries[i].Hash]}
         ELSE LeafFiles(tree.entries[i].Hash, Append(pth, tree.entries[i].Name))
         : i \in DOMAIN tree.entries}

\* The hash of the file a tree holds at a path, the zero hash if it holds
\* no file there.
FileHashAt(files, pth) ==
  IF \E l \in files : l.path = pth
  THEN (CHOOSE l \in files : l.path = pth).hash
  ELSE ZeroHash

\* The map from the paths at which the leaf files of the two trees differ to
\* the two hashes.
DiffOfLeaves(leaves1, leaves2) ==
  {[path |-> p, hashes |-> BlobHashes(FileHashAt(leaves1, p), FileHashAt(leaves2, p))] :
     p \in {l.path : l \in {x \in leaves1 \cup leaves2 :
                              FileHashAt(leaves1, x.path) # FileHashAt(leaves2, x.path)}}}

\* The map with the two hashes of every pair exchanged.
Swapped(modified) ==
  {[path |-> m.path, hashes |-> BlobHashes(m.hashes.BlobHash2, m.hashes.BlobHash1)] :
     m \in modified}

\* The subtree of a tree at a path of directories; NilTree if there is none.
RECURSIVE SubtreeAt(_, _)
SubtreeAt(tree, pth) ==
  IF pth = <<>> THEN tree
  ELSE IF EntryNamed(tree, Head(pth)).Mode # "dir" THEN NilTree
  ELSE SubtreeAt(EntryNamed(tree, Head(pth)).Hash, Tail(pth))

\* C30: DiffTree(T1, T2) maps a path to (h1, h2) exactly for the files both
\* trees hold with different hashes, for every file only one tree holds,
\* the leaf files of a directory only one tree holds included, with the
\* zero hash on the other side, and, where one tree holds a file and the
\* other a directory of the same name, for the file and every leaf file of
\* the directory; two entries of equal hash are passed over without a walk
\* into them, so DiffTree(T, T) is empty, and DiffTree(T2, T1) is
\* DiffTree(T1, T2) with the hashes of every pair exchanged.
C30_DiffTree ==
  (orch.op = "diff-tree" /\ orch.pc = "done")
    => /\ orch.result.modified =
            DiffOfLeaves(LeafFiles(orch.tree1, <<>>), LeafFiles(orch.tree2, <<>>))
       /\ \A k \in DOMAIN orch.result.diffed :
            k > 1 => /\ SubtreeAt(orch.tree1, orch.result.diffed[k]) # NilTree
                     /\ SubtreeAt(orch.tree2, orch.result.diffed[k]) # NilTree
                     /\ SubtreeAt(orch.tree1, orch.result.diffed[k])
                          # SubtreeAt(orch.tree2, orch.result.diffed[k])
       /\ orch.tree1 = orch.tree2 =>
            orch.result.modified = {} /\ orch.result.diffed = << <<>> >>
       /\ DiffTree(orch.order, orch.tree2, orch.tree1).modified
            = Swapped(orch.result.modified)

\* DiffTree went into a directory both trees hold, found there a file of
\* two different hashes and a file facing a directory, and listed the file,
\* with the zero hash for the side of the directory, and a leaf file of
\* the directory, with the zero hash for the side of the file.
C30_Witness ==
  /\ orch.op = "diff-tree"
  /\ orch.pc = "done"
  /\ Len(orch.result.diffed) = 2
  /\ \E m \in orch.result.modified :
       /\ Len(m.path) = 2
       /\ m.hashes.BlobHash1 # ZeroHash
       /\ m.hashes.BlobHash2 # ZeroHash
  /\ \E m \in orch.result.modified, n \in orch.result.modified :
       /\ Len(m.path) = 2
       /\ Len(n.path) = 3
       /\ SubSeq(n.path, 1, 2) = m.path
       /\ m.hashes.BlobHash2 = ZeroHash
       /\ n.hashes.BlobHash1 = ZeroHash

(***************************************************************************)
(* The entry names of the trees the merger writes                          *)
(***************************************************************************)
\* No two entries of the tree have the same name.
DistinctNames(tree) ==
  \A i \in DOMAIN tree.entries, j \in DOMAIN tree.entries :
    tree.entries[i].Name = tree.entries[j].Name => i = j

\* C31: every tree object the merger writes has pairwise distinct entry
\* names, also when the diff3 resolver keeps the two sides of a binary
\* conflict or of a conflict that involves something other than a file as
\* two entries.
C31_UniqueNames ==
  (orch.op = "merge-tree" /\ orch.pc = "done" /\ orch.result.err = "")
    => \A k \in DOMAIN orch.result.NewHashes : DistinctNames(orch.result.NewHashes[k])

(***************************************************************************)
(* The lists of the diff3 resolver                                         *)
(***************************************************************************)
\* The four lists of a Diff3Resolver, one after another.
ResolverLists(r) ==
  r.ConflictResolvedFiles \o r.ConflictOpenFiles \o r.BinaryConflictFiles
    \o r.NonFileConflictFiles

\* The path of the conflict a call of the resolver was made for.
CallPath(call) ==
  Append(call.parentPath,
         IF call.entry1.Mode # "nil" THEN call.entry1.Name ELSE call.entry2.Name)

\* C32: the diff3 resolver records every conflict it is asked to resolve in
\* exactly one of ConflictResolvedFiles, ConflictOpenFiles,
\* BinaryConflictFiles and NonFileConflictFiles, and in
\* NonFileConflictFiles only when one side at least is not a regular file:
\* a conflict of two regular files goes to the three-way merge of lines, or
\* is recorded as binary, also when the base has no entry of that name.
C32_ResolverLists ==
  (orch.op = "merge-tree" /\ orch.pc = "done" /\ orch.result.err = ""
     /\ orch.conflictResolver.kind = "diff3")
    => \A k \in DOMAIN orch.result.resolver.calls :
         LET call == orch.result.resolver.calls[k]
         IN /\ Count(ResolverLists(orch.result.resolver), CallPath(call)) = 1
            /\ (IsFile(call.entry1) /\ IsFile(call.entry2))
                 => Count(orch.result.resolver.NonFileConflictFiles, CallPath(call)) = 0

\* The same without the last part: every conflict is recorded in exactly
\* one list, and a conflict of two files whose base entry is a file too is
\* not recorded in NonFileConflictFiles.
ResolverListsWithBaseFile ==
  (orch.op = "merge-tree" /\ orch.pc = "done" /\ orch.result.err = ""
     /\ orch.conflictResolver.kind = "diff3")
    => \A k \in DOMAIN orch.result.resolver.calls :
         LET call == orch.result.resolver.calls[k]
         IN /\ Count(ResolverLists(orch.result.resolver), CallPath(call)) = 1
            /\ (IsFile(call.entry1) /\ IsFile(call.entry2) /\ IsFile(call.entryBase))
                 => Count(orch.result.resolver.NonFileConflictFiles, CallPath(call)) = 0

(***************************************************************************)
(* Band 3 in the packfile section, and the bytes of a retried fetch        *)
(***************************************************************************)
\* The payloads of the band-3 packets of the packfile section of a
\* response, as far as the scan of it goes.
RECURSIVE ErrorPayloads(_, _)
ErrorPayloads(response, inSection) ==
  IF response = <<>> THEN <<>>
  ELSE LET chunk == Head(response)
           bytes == chunk.Response
       IN IF chunk.EndResponse THEN <<>>
          ELSE IF chunk.Delimiter \/ bytes = <<>>
            THEN ErrorPayloads(Tail(response), inSection)
          ELSE IF inSection
            THEN (IF Head(bytes) = BandError THEN << Tail(bytes) >> ELSE <<>>)
                   \o ErrorPayloads(Tail(response), inSection)
            ELSE ErrorPayloads(Tail(response), bytes = <<"packfile\n">>)

\* C33: a band-3 packet in the packfile section of a fetch response makes
\* the fetch fail, with an error that carries the payload of the packet; the
\* packet is never passed over, and no packfile is returned as a success
\* after it.
C33_FatalBand ==
  /\ (fetch.pc = "done" /\ fetch.result = "ok")
       => ErrorPayloads(fetch.response, FALSE) = <<>>
  /\ ~(fetch.pc = "scan" /\ ErrorPayloads(fetch.response, FALSE) # <<>>)

\* C35: when a fetch succeeds after one failed attempt or more, the bytes
\* it returns are the band-1 payloads of the attempt that succeeded; the
\* bytes read in a failed attempt are no part of them.
C35_RetriedFetchBytes ==
  (fetch.pc = "done" /\ fetch.result = "ok" /\ fetch.attempts > 1)
    => fetch.bytes = MainPayloads(fetch.response, FALSE)

(***************************************************************************)
(* The push timeout (src/internal/push/push.go, Push)                      *)
(***************************************************************************)
\* Longest push timeout tried, in ticks of the clock.
MaxPushTimeout == 3
\* The clock stops after this many ticks.
MaxPushClock == 6

\* gitprotocontext.GitPushTimeout: the timeout of the context when it is a
\* positive duration, 0 otherwise.
GitPushTimeout(value) == IF value > 0 THEN value ELSE 0

\* Push has been called and waits for the reference advertisement: now is
\* the time since the call, deadline the deadline of the context handed to
\* ReceivePack (-1: none), value the push timeout of the caller's context;
\* advCompletes and packCompletes tell whether the server ever answers the
\* two requests.
PushCalled(value, advCompletes, packCompletes) ==
  [pc |-> "advertisement", value |-> value, advCompletes |-> advCompletes,
   packCompletes |-> packCompletes, now |-> 0, deadline |-> -1, err |-> ""]

\* A tick of the clock while Push waits for the server; the context of
\* ReceivePack is cancelled when its deadline comes, so no tick passes it.
TimePasses ==
  /\ push.pc \in {"advertisement", "receive-pack"}
  /\ push.now < MaxPushClock
  /\ push.pc = "receive-pack" /\ push.deadline >= 0 => push.now < push.deadline
  /\ push' = [push EXCEPT !.now = @ + 1]
  /\ UNCHANGED <<remote, others, orch, fetch>>

\* sess.AdvertisedReferences() returns the advertisement: the request is
\* built, the context with the timeout is made and ReceivePack is called.
PushAdvertised ==
  /\ push.pc = "advertisement"
  /\ push.advCompletes
  /\ push' = [push EXCEPT !.pc = "receive-pack",
                          !.deadline = IF GitPushTimeout(push.value) > 0
                                       THEN push.now + GitPushTimeout(push.value)
                                       ELSE -1]
  /\ UNCHANGED <<remote, others, orch, fetch>>

\* sess.AdvertisedReferences() returns an error of the transport.
PushAdvertisementFails ==
  /\ push.pc = "advertisement"
  /\ push.advCompletes
  /\ push' = [push EXCEPT !.pc = "done", !.err = "advertisement failed"]
  /\ UNCHANGED <<remote, others, orch, fetch>>

\* sess.ReceivePack returns the report of the server.
PushReceived ==
  /\ push.pc = "receive-pack"
  /\ push.packCompletes
  /\ push' = [push EXCEPT !.pc = "done"]
  /\ UNCHANGED <<remote, others, orch, fetch>>

\* The deadline of the context comes while ReceivePack waits: it returns
\* the error of the context.
PushDeadlineExceeded ==
  /\ push.pc = "receive-pack"
  /\ push.deadline >= 0
  /\ push.now = push.deadline
  /\ push' = [push EXCEPT !.pc = "done", !.err = "context deadline exceeded"]
  /\ UNCHANGED <<remote, others, orch, fetch>>

InitPushTimeout ==
  /\ remote = [r \in RefNames |-> ZeroHash]
  /\ others = 0
  /\ orch = [op |-> "push", pc |-> "start", args |-> <<>>, error |-> ""]
  /\ fetch = FetchIdle
  /\ \E value \in (-1)..MaxPushTimeout, advCompletes \in BOOLEAN, packCompletes \in BOOLEAN :
       push = PushCalled(value, advCompletes, packCompletes)

NextPushTimeout ==
  \/ TimePasses
  \/ PushAdvertised
  \/ PushAdvertisementFails
  \/ PushReceived
  \/ PushDeadlineExceeded

SpecPushTimeout == InitPushTimeout /\ [][NextPushTimeout]_vars

\* C34: a push timeout that is set bounds the reference advertisement and
\* the receive-pack round trip together: a push is over when the timeout
\* has passed since it began, and a push whose advertisement or whose
\* receive-pack never completes is over with a timeout error.
C34_PushTimeout ==
  GitPushTimeout(push.value) > 0
    => /\ push.now <= GitPushTimeout(push.value)
       /\ (push.pc = "done" /\ ~push.advCompletes)
            => push.err = "context deadline exceeded"
       /\ (push.pc = "done" /\ push.deadline >= 0 /\ ~push.packCompletes)
            => push.err = "context deadline exceeded"

\* The part of it that is about receive-pack alone: the time between the
\* call of ReceivePack and its return is the timeout at most, and a
\* receive-pack that never completes ends with the error of the context.
ReceivePackTimeout ==
  (GitPushTimeout(push.value) > 0 /\ push.pc \in {"receive-pack", "done"}
     /\ push.deadline >= 0)
    => /\ push.now <= push.deadline
       /\ (push.pc = "done" /\ ~push.packCompletes)
            => push.err = "context deadline exceeded"

(***************************************************************************)
(* The blobs-only fetches of backport and linear-rebase                    *)
(***************************************************************************)
\* C36: every hash a blobs-only fetch of backport or linear-rebase asks for
\* names a blob the remote holds and the local storage does not hold yet: a
\* blob the resolver made while an earlier commit was replayed is not asked
\* for when a later commit conflicts in the same file, and no blob fetch is
\* made with an empty list of wanted hashes.
C36_BlobFetches ==
  orch.op \in {"backport", "linear-rebase"}
    => \A i \in DOMAIN orch.merges :
         orch.merges[i].blobFetches > 0
           => /\ orch.merges[i].wanted # {}
              /\ orch.merges[i].wanted \subseteq RemoteBlobs
              /\ orch.merges[i].wanted \cap orch.merges[i].stored = {}

(***************************************************************************)
(* The expected hash of squash-cherry-pick and the conflict ref            *)
(***************************************************************************)
\* The push of a squash-cherry-pick goes to the conflict ref, and the
\* caller gave the hash it expects the primary ref to hold.
RedirectedWithExpectedHash ==
  /\ orch.op = "squash-cherry-pick"
  /\ orch.pc \in {"pushing", "done"}
  /\ push.pc # "idle"
  /\ Len(orch.args.conflictRef) > 0
  /\ Len(orch.args.currentRefhash) > 0
  /\ orch.unresolved # <<>>
  /\ push.updates[1].Name = orch.args.conflictRef[1]

\* C37: the hash the caller of squash-cherry-pick expects the ref to hold
\* is a precondition on the primary ref alone: when conflicts send the push
\* to the conflict ref, the update of the conflict ref does not carry that
\* hash as its expected old value, and the server accepts the push whenever
\* it executes it while the conflict ref does not exist.
C37_ConflictRefPrecondition ==
  RedirectedWithExpectedHash
    => /\ push.updates[1].OldHash = <<>>
       /\ (push.pc = "done" /\ push.served
             /\ push.pre[orch.args.conflictRef[1]] = ZeroHash)
            => AllCommandsOk(push.pre, push.cmds)

\* The second part of it alone.
RedirectedPushAccepted ==
  (RedirectedWithExpectedHash /\ push.pc = "done" /\ push.served
     /\ push.pre[orch.args.conflictRef[1]] = ZeroHash)
    => AllCommandsOk(push.pre, push.cmds)

(***************************************************************************)
(* The objects a pushed commit refers to                                   *)
(***************************************************************************)
\* The commits the run fetched from the remote: its input commits.
FetchedCommits ==
  IF orch.op = "squash-cherry-pick"
  THEN {orch.args.from, orch.args.to, orch.args.base}
  ELSE IF orch.op = "backport"
  THEN {orch.args.baseCommitHash} \cup Range(orch.args.backportCommits)
  ELSE {orch.args.destinationCommit}
         \cup {orch.refs[i].headCommit : i \in DOMAIN orch.refs}
         \cup {orch.args.refs[i].BaseCommit : i \in DOMAIN orch.args.refs}

\* The objects the input commits reach: objects the remote holds.
FetchedObjects == UNION {CommitObjects(c) : c \in FetchedCommits}

\* The push of an orchestrator was executed and accepted by the server.
PushSucceeded ==
  /\ orch.op \in {"squash-cherry-pick", "backport", "linear-rebase"}
  /\ orch.pc \in {"pushing", "done"}
  /\ push.pc = "done"
  /\ push.served
  /\ push.err = ""

\* C38: after every successful push of an orchestrator each object the new
\* commit of a pushed ref reaches is in the packfile of the push or is
\* reached from an input commit the run fetched, so the remote holds it:
\* the remote receives no commit or tree that refers to a tree or to a blob
\* made by the resolver which it does not have.
C38_PushClosed ==
  PushSucceeded
    => \A i \in DOMAIN push.updates :
         CommitObjects(push.updates[i].NewHash) \subseteq (NewObjects \cup FetchedObjects)

\* A pushed commit reaches a blob the resolver made and a tree the merger
\* wrote, both in the packfile and neither reached from an input commit.
C38_Witness ==
  /\ PushSucceeded
  /\ \E i \in DOMAIN push.updates :
       \E b \in CommitObjects(push.updates[i].NewHash) \ FetchedObjects :
         /\ b.kind = "blob"
         /\ b \in NewObjects
         /\ push.updates[i].NewHash.tree \in NewObjects \ FetchedObjects

====
